---- MODULE Spec2Model ----
(***************************************************************************)
(* Model of the signal core of ForexPredict: TechnicalIndicators,          *)
(* DivergenceDetector and SignalEngine, and of the life cycle of its data  *)
(* services: FinnhubService, DemoDataService and ForexService.             *)
(*                                                                         *)
(* Numbers.  A JavaScript number is modelled as an exact rational          *)
(* [n |-> numerator, d |-> denominator] in lowest terms with d > 0.        *)
(* d = 0 encodes the non-finite values of IEEE arithmetic: n = 1 is        *)
(* +Infinity, n = -1 is -Infinity and n = 0 is NaN.  Rounding of doubles   *)
(* and the sign of zero are not modelled.                                  *)
(***************************************************************************)
EXTENDS Integers, Sequences, FiniteSets, TLC

VARIABLES
    engine,       \* the SignalEngine under test: snapshot history + detector
    result,       \* what its last processMarketData call returned
    call,         \* what that call computed on the way (candidates, count, ...)
    ticks,        \* number of processMarketData calls made on engine
    script,       \* SpecHistory: the cyclic tick script being fed
    other,        \* a second SignalEngine instance (replica / per-instrument)
    fed,          \* SpecReplay: the ticks fed to engine so far
    results,      \* SpecReplay: the outputs of engine, in order
    otherResults, \* SpecReplay / SpecShared: the outputs of the second engine
    detector,     \* SpecDetector: a DivergenceDetector driven directly
    candidates,   \* SpecDetector: what its last detectDivergences() returned
    fn,           \* SpecStrength / SpecIndicators: arguments and value of a pure call
    finnhub,      \* SpecFinnhub: a FinnhubService, its sockets and its timers
    demo,         \* SpecDemo: a DemoDataService and its timers
    forex         \* SpecForex: a ForexService, its connect() calls and its timers

vars ==
    <<engine, result, call, ticks, script, other, fed, results, otherResults,
      detector, candidates, fn, finnhub, demo, forex>>

(***************************************************************************)
(* Number arithmetic                                                       *)
(***************************************************************************)
AbsI(i) == IF i < 0 THEN -i ELSE i

SignI(i) == IF i > 0 THEN 1 ELSE IF i < 0 THEN -1 ELSE 0

RECURSIVE Gcd(_, _)
Gcd(a, b) == IF b = 0 THEN a ELSE Gcd(b, a % b)

Norm(n, d) ==
    IF d = 0 THEN [n |-> SignI(n), d |-> 0]
    ELSE LET g == Gcd(AbsI(n), AbsI(d))
             s == SignI(d)
         IN  [n |-> s * (n \div g), d |-> s * (d \div g)]

Num(i) == [n |-> i, d |-> 1]

Frac(a, b) == Norm(a, b)

NaN == [n |-> 0, d |-> 0]

Infinity == [n |-> 1, d |-> 0]

NegInfinity == [n |-> -1, d |-> 0]

IsNaN(x) == x.d = 0 /\ x.n = 0

IsFinite(x) == x.d # 0

Neg(x) == [n |-> -x.n, d |-> x.d]

Add(x, y) ==
    IF IsNaN(x) \/ IsNaN(y) THEN NaN
    ELSE IF x.d = 0 /\ y.d = 0 THEN (IF x.n = y.n THEN x ELSE NaN)
    ELSE IF x.d = 0 THEN x
    ELSE IF y.d = 0 THEN y
    ELSE LET g == Gcd(x.d, y.d)
         IN  Norm(x.n * (y.d \div g) + y.n * (x.d \div g), (x.d \div g) * y.d)

Sub(x, y) == Add(x, Neg(y))

Mul(x, y) == Norm(x.n * y.n, x.d * y.d)

Recip(y) ==
    IF y.d = 0 THEN (IF y.n = 0 THEN NaN ELSE Num(0))
    ELSE IF y.n = 0 THEN Infinity
    ELSE Norm(y.d, y.n)

Div(x, y) == Mul(x, Recip(y))

\* x < y; false as soon as one side is NaN
Lt(x, y) ==
    IF IsNaN(x) \/ IsNaN(y) THEN FALSE
    ELSE IF x.d = 0 /\ y.d = 0 THEN x.n < y.n
    ELSE IF x.d = 0 THEN x.n < 0
    ELSE IF y.d = 0 THEN y.n > 0
    ELSE IF SignI(x.n) # SignI(y.n) THEN SignI(x.n) < SignI(y.n)
    ELSE LET g == Gcd(x.d, y.d)
         IN  x.n * (y.d \div g) < y.n * (x.d \div g)

Gt(x, y) == Lt(y, x)

\* x === y
Eq(x, y) == ~IsNaN(x) /\ ~IsNaN(y) /\ x = y

Le(x, y) == Lt(x, y) \/ Eq(x, y)

Ge(x, y) == Le(y, x)

MathAbs(x) == [n |-> AbsI(x.n), d |-> x.d]

MathMin(x, y) == IF IsNaN(x) \/ IsNaN(y) THEN NaN ELSE IF Lt(y, x) THEN y ELSE x

MathMax(x, y) == IF IsNaN(x) \/ IsNaN(y) THEN NaN ELSE IF Gt(y, x) THEN y ELSE x

\* the truthiness of a number: 0 and NaN are falsy
Truthy(x) == ~IsNaN(x) /\ ~(x.d # 0 /\ x.n = 0)

\* a || b on numbers
OrElse(a, b) == IF Truthy(a) THEN a ELSE b

(***************************************************************************)
(* Arrays: a JavaScript array is a sequence, read with 0-based indices.    *)
(* Reading outside the array gives undefined, which behaves as NaN in the  *)
(* arithmetic and the comparisons made on it here.                         *)
(***************************************************************************)
At(arr, i) == IF i >= 0 /\ i < Len(arr) THEN arr[i + 1] ELSE NaN

\* arr.slice(-k)
SliceLast(arr, k) ==
    IF Len(arr) <= k THEN arr ELSE SubSeq(arr, Len(arr) - k + 1, Len(arr))

\* A loop of the code is a recursive operator on the record st of the loop's
\* variables (the index i among them); st is the state before iteration st.i.
RECURSIVE MaxOf(_, _)
MaxOf(arr, st) ==
    IF st.i >= Len(arr) THEN st.acc
    ELSE MaxOf(arr, [i |-> st.i + 1, acc |-> MathMax(st.acc, At(arr, st.i))])

RECURSIVE MinOf(_, _)
MinOf(arr, st) ==
    IF st.i >= Len(arr) THEN st.acc
    ELSE MinOf(arr, [i |-> st.i + 1, acc |-> MathMin(st.acc, At(arr, st.i))])

\* Math.max(...arr), Math.min(...arr)
SpreadMax(arr) == MaxOf(arr, [i |-> 0, acc |-> NegInfinity])

SpreadMin(arr) == MinOf(arr, [i |-> 0, acc |-> Infinity])

(***************************************************************************)
(* TechnicalIndicators                                                     *)
(***************************************************************************)
rsiPeriod == 14

macdFastPeriod == 12

macdSlowPeriod == 26

stochKPeriod == 14

adxPeriod == 14

emaFastPeriod == 9

emaSlowPeriod == 21

\* first loop of calculateRSI: sums of the gains and losses of changes 1..period
RECURSIVE rsiSums(_, _, _)
rsiSums(prices, period, st) ==
    IF st.i > period THEN st
    ELSE LET change == Sub(At(prices, st.i), At(prices, st.i - 1))
         IN  IF Gt(change, Num(0))
             THEN rsiSums(prices, period,
                      [i |-> st.i + 1, gains |-> Add(st.gains, change),
                       losses |-> st.losses])
             ELSE rsiSums(prices, period,
                      [i |-> st.i + 1, gains |-> st.gains,
                       losses |-> Add(st.losses, MathAbs(change))])

\* the state before the second loop: avgGain = gains / period, avgLoss = losses / period
rsiAverages(period, sums) ==
    [i |-> period + 1,
     avgGain |-> Div(sums.gains, Num(period)),
     avgLoss |-> Div(sums.losses, Num(period))]

\* rsiOf with rs taken as avgLoss / avgGain
rsiOfInverted(avgGain, avgLoss) ==
    IF Eq(avgGain, Num(0)) THEN Num(100)
    ELSE Sub(Num(100), Div(Num(100), Add(Num(1), Div(avgLoss, avgGain))))

\* the value returned after the loops: 100 when avgLoss === 0, else 100 - 100 / (1 + rs)
rsiOf(avgGain, avgLoss) ==
    IF Eq(avgLoss, Num(0)) THEN Num(100)
    ELSE Sub(Num(100), Div(Num(100), Add(Num(1), Div(avgGain, avgLoss))))

\* second loop of calculateRSI: Wilder's smoothing over changes period+1..,
\* then the value returned
RECURSIVE rsiSmooth(_, _, _)
rsiSmooth(prices, period, st) ==
    IF st.i >= Len(prices) THEN rsiOf(st.avgGain, st.avgLoss)
    ELSE LET change == Sub(At(prices, st.i), At(prices, st.i - 1))
             gain == IF Gt(change, Num(0)) THEN change ELSE Num(0)
             loss == IF Lt(change, Num(0)) THEN MathAbs(change) ELSE Num(0)
         IN  rsiSmooth(prices, period,
                 [i |-> st.i + 1,
                  avgGain |-> Div(Add(Mul(st.avgGain, Num(period - 1)), gain),
                                  Num(period)),
                  avgLoss |-> Div(Add(Mul(st.avgLoss, Num(period - 1)), loss),
                                  Num(period))])

\* calculateRSI with the length guard off by one (prices.length < period)
calculateRSIOffByOne(prices, period) ==
    IF Len(prices) < period THEN Num(50)
    ELSE rsiSmooth(prices, period,
             rsiAverages(period,
                 rsiSums(prices, period, [i |-> 1, gains |-> Num(0), losses |-> Num(0)])))

calculateRSIp(prices, period) ==
    IF Len(prices) < period + 1 THEN Num(50)
    ELSE rsiSmooth(prices, period,
             rsiAverages(period,
                 rsiSums(prices, period, [i |-> 1, gains |-> Num(0), losses |-> Num(0)])))

calculateRSI(prices) == calculateRSIp(prices, rsiPeriod)

RECURSIVE emaLoop(_, _, _)
emaLoop(prices, multiplier, st) ==
    IF st.i >= Len(prices) THEN st.ema
    ELSE emaLoop(prices, multiplier,
             [i |-> st.i + 1,
              ema |-> Add(Mul(Sub(At(prices, st.i), st.ema), multiplier), st.ema)])

\* calculateEMA with the average started at 0 instead of prices[0]
calculateEMAFromZero(prices, period) ==
    IF Len(prices) = 0 THEN Num(0)
    ELSE IF Len(prices) = 1 THEN At(prices, 0)
    ELSE emaLoop(prices, Frac(2, period + 1), [i |-> 0, ema |-> Num(0)])

calculateEMA(prices, period) ==
    IF Len(prices) = 0 THEN Num(0)
    ELSE IF Len(prices) = 1 THEN At(prices, 0)
    ELSE emaLoop(prices, Frac(2, period + 1), [i |-> 1, ema |-> At(prices, 0)])

calculateMACDp(prices, fastPeriod, slowPeriod) ==
    IF Len(prices) < slowPeriod
    THEN [macd |-> Num(0), signal |-> Num(0), histogram |-> Num(0)]
    ELSE LET fastEMA == calculateEMA(prices, fastPeriod)
             slowEMA == calculateEMA(prices, slowPeriod)
             macdLine == Sub(fastEMA, slowEMA)
             signal == Mul(macdLine, Frac(9, 10))
         IN  [macd |-> macdLine, signal |-> signal,
              histogram |-> Sub(macdLine, signal)]

calculateMACD(prices) == calculateMACDp(prices, macdFastPeriod, macdSlowPeriod)

\* calculateStochastic with %D above %K: d = k * 1.05
calculateStochasticSlowAbove(highs, lows, closes, kPeriod) ==
    IF Len(closes) < kPeriod THEN [k |-> Num(50), d |-> Num(50)]
    ELSE LET highestHigh == SpreadMax(SliceLast(highs, kPeriod))
             lowestLow == SpreadMin(SliceLast(lows, kPeriod))
             currentClose == At(closes, Len(closes) - 1)
             k == Mul(Div(Sub(currentClose, lowestLow),
                          Sub(highestHigh, lowestLow)), Num(100))
             d == Mul(k, Frac(105, 100))
         IN  [k |-> OrElse(k, Num(50)), d |-> OrElse(d, Num(50))]

calculateStochasticp(highs, lows, closes, kPeriod) ==
    IF Len(closes) < kPeriod THEN [k |-> Num(50), d |-> Num(50)]
    ELSE LET highestHigh == SpreadMax(SliceLast(highs, kPeriod))
             lowestLow == SpreadMin(SliceLast(lows, kPeriod))
             currentClose == At(closes, Len(closes) - 1)
             k == Mul(Div(Sub(currentClose, lowestLow),
                          Sub(highestHigh, lowestLow)), Num(100))
             d == Mul(k, Frac(95, 100))
         IN  [k |-> OrElse(k, Num(50)), d |-> OrElse(d, Num(50))]

calculateStochastic(highs, lows, closes) ==
    calculateStochasticp(highs, lows, closes, stochKPeriod)

\* the value returned after the loop of calculateADX
adxOf(totalTrueRange, totalDMPlus, totalDMMinus) ==
    IF Eq(totalTrueRange, Num(0)) THEN Num(25)
    ELSE LET diPlus == Mul(Div(totalDMPlus, totalTrueRange), Num(100))
             diMinus == Mul(Div(totalDMMinus, totalTrueRange), Num(100))
         IN  IF Eq(Add(diPlus, diMinus), Num(0)) THEN Num(25)
             ELSE Mul(Div(MathAbs(Sub(diPlus, diMinus)), Add(diPlus, diMinus)), Num(100))

\* the loop of calculateADX, i = 1 .. min(closes.length, period + 1) - 1, then
\* the value returned
RECURSIVE adxLoop(_, _, _, _, _)
adxLoop(highs, lows, closes, last, st) ==
    IF st.i >= last THEN adxOf(st.totalTrueRange, st.totalDMPlus, st.totalDMMinus)
    ELSE LET i == st.i
             highDiff == Sub(At(highs, i), At(highs, i - 1))
             lowDiff == Sub(At(lows, i - 1), At(lows, i))
             dmPlus == IF Gt(highDiff, lowDiff) /\ Gt(highDiff, Num(0))
                       THEN highDiff ELSE Num(0)
             dmMinus == IF Gt(lowDiff, highDiff) /\ Gt(lowDiff, Num(0))
                        THEN lowDiff ELSE Num(0)
             trueRange == MathMax(MathMax(Sub(At(highs, i), At(lows, i)),
                                  MathAbs(Sub(At(highs, i), At(closes, i - 1)))),
                                  MathAbs(Sub(At(lows, i), At(closes, i - 1))))
         IN  adxLoop(highs, lows, closes, last,
                 [i |-> i + 1,
                  totalTrueRange |-> Add(st.totalTrueRange, trueRange),
                  totalDMPlus |-> Add(st.totalDMPlus, dmPlus),
                  totalDMMinus |-> Add(st.totalDMMinus, dmMinus)])

calculateADXp(highs, lows, closes, period) ==
    IF Len(closes) < period + 1 THEN Num(25)
    ELSE adxLoop(highs, lows, closes,
             IF Len(closes) < period + 1 THEN Len(closes) ELSE period + 1,
             [i |-> 1, totalTrueRange |-> Num(0), totalDMPlus |-> Num(0),
              totalDMMinus |-> Num(0)])

calculateADX(highs, lows, closes) == calculateADXp(highs, lows, closes, adxPeriod)

calculateAllIndicators(prices, highs, lows, closes) ==
    [rsi |-> calculateRSI(prices),
     macd |-> calculateMACD(prices),
     stochastic |-> calculateStochastic(highs, lows, closes),
     ema |-> [fast |-> calculateEMA(prices, emaFastPeriod),
              slow |-> calculateEMA(prices, emaSlowPeriod)],
     adx |-> calculateADX(highs, lows, closes)]

(***************************************************************************)
(* DivergenceDetector                                                      *)
(***************************************************************************)
minBarsForDivergence == 5

detectorMaxHistoryLength == 100

\* a detector constructed with three bars already in its histories
NewDetectorSeeded ==
    [priceHistory |-> <<Num(5), Num(3), Num(5)>>,
     indicatorHistory |-> [rsi |-> <<Num(60), Num(10), Num(60)>>,
                           macd |-> <<Num(2), Num(0), Num(2)>>,
                           stochastic |-> <<Num(80), Num(20), Num(80)>>]]

\* the fields of a freshly constructed DivergenceDetector
NewDetector ==
    [priceHistory |-> <<>>,
     indicatorHistory |-> [rsi |-> <<>>, macd |-> <<>>, stochastic |-> <<>>]]

\* addDataPoint trimming the price history only
addDataPointPriceTrimOnly(det, price, indicators) ==
    LET ph == Append(det.priceHistory, price)
        ih == [rsi |-> Append(det.indicatorHistory.rsi, indicators.rsi),
               macd |-> Append(det.indicatorHistory.macd, indicators.macd.histogram),
               stochastic |-> Append(det.indicatorHistory.stochastic,
                                     indicators.stochastic.k)]
    IN  IF Len(ph) > detectorMaxHistoryLength
        THEN [priceHistory |-> SliceLast(ph, detectorMaxHistoryLength),
              indicatorHistory |-> ih]
        ELSE [priceHistory |-> ph, indicatorHistory |-> ih]

\* addDataPoint on histories held once for all detectors (those of the first
\* engine) instead of the histories of the detector it is called on
addDataPointShared(det, price, indicators) ==
    LET shared == engine.divergenceDetector
        ph == Append(shared.priceHistory, price)
        ih == [rsi |-> Append(shared.indicatorHistory.rsi, indicators.rsi),
               macd |-> Append(shared.indicatorHistory.macd, indicators.macd.histogram),
               stochastic |-> Append(shared.indicatorHistory.stochastic,
                                     indicators.stochastic.k)]
    IN  IF Len(ph) > detectorMaxHistoryLength
        THEN [priceHistory |-> SliceLast(ph, detectorMaxHistoryLength),
              indicatorHistory |->
                  [key \in DOMAIN ih |-> SliceLast(ih[key], detectorMaxHistoryLength)]]
        ELSE [priceHistory |-> ph, indicatorHistory |-> ih]

addDataPoint(det, price, indicators) ==
    LET ph == Append(det.priceHistory, price)
        ih == [rsi |-> Append(det.indicatorHistory.rsi, indicators.rsi),
               macd |-> Append(det.indicatorHistory.macd, indicators.macd.histogram),
               stochastic |-> Append(det.indicatorHistory.stochastic,
                                     indicators.stochastic.k)]
    IN  IF Len(ph) > detectorMaxHistoryLength
        THEN [priceHistory |-> SliceLast(ph, detectorMaxHistoryLength),
              indicatorHistory |->
                  [key \in DOMAIN ih |-> SliceLast(ih[key], detectorMaxHistoryLength)]]
        ELSE [priceHistory |-> ph, indicatorHistory |-> ih]

RECURSIVE extremesLoop(_, _)
extremesLoop(data, st) ==
    IF st.i >= Len(data) - 1 THEN [maxima |-> st.maxima, minima |-> st.minima]
    ELSE LET i == st.i
             isMax == Gt(At(data, i), At(data, i - 1)) /\ Gt(At(data, i), At(data, i + 1))
             isMin == Lt(At(data, i), At(data, i - 1)) /\ Lt(At(data, i), At(data, i + 1))
             point == [index |-> i, value |-> At(data, i)]
         IN  extremesLoop(data,
                 [i |-> i + 1,
                  maxima |-> IF isMax THEN Append(st.maxima, point) ELSE st.maxima,
                  minima |-> IF isMin THEN Append(st.minima, point) ELSE st.minima])

findExtremes(data) == extremesLoop(data, [i |-> 1, maxima |-> <<>>, minima |-> <<>>])

calculateDivergenceStrength(point1, point2, indPoint1, indPoint2) ==
    LET priceChange == Div(MathAbs(Sub(point2.value, point1.value)), point1.value)
        indicatorChange == Div(MathAbs(Sub(indPoint2.value, indPoint1.value)),
                               MathAbs(OrElse(indPoint1.value, Num(1))))
        timeDiff == Num(AbsI(point2.index - point1.index))
        strength == Mul(Add(priceChange, indicatorChange),
                        MathMin(Div(timeDiff, Num(5)), Num(1)))
    IN  MathMin(strength, Num(1))

\* the bullish block of checkIndicatorDivergence: at most one candidate
bullishCandidates(priceExtremes, indicatorExtremes, indicatorName) ==
    IF Len(priceExtremes.minima) >= 2 /\ Len(indicatorExtremes.minima) >= 2
    THEN LET priceMin1 == priceExtremes.minima[Len(priceExtremes.minima) - 1]
             priceMin2 == priceExtremes.minima[Len(priceExtremes.minima)]
             indMin1 == indicatorExtremes.minima[Len(indicatorExtremes.minima) - 1]
             indMin2 == indicatorExtremes.minima[Len(indicatorExtremes.minima)]
             strength == calculateDivergenceStrength(priceMin1, priceMin2, indMin1, indMin2)
         IN  IF Lt(priceMin2.value, priceMin1.value) /\ Gt(indMin2.value, indMin1.value)
                /\ Gt(strength, Frac(3, 10))
             THEN << [type |-> "bullish",
                      indicator |-> indicatorName,
                      strength |-> strength,
                      pricePoints |-> <<priceMin1, priceMin2>>,
                      indicatorPoints |-> <<indMin1, indMin2>>,
                      description |-> <<indicatorName,
                          " bullish divergence: price making lower lows while ",
                          indicatorName, " shows higher lows">>] >>
             ELSE <<>>
    ELSE <<>>

\* the bearish block without the strength > 0.3 test
bearishCandidatesAnyStrength(priceExtremes, indicatorExtremes, indicatorName) ==
    IF Len(priceExtremes.maxima) >= 2 /\ Len(indicatorExtremes.maxima) >= 2
    THEN LET priceMax1 == priceExtremes.maxima[Len(priceExtremes.maxima) - 1]
             priceMax2 == priceExtremes.maxima[Len(priceExtremes.maxima)]
             indMax1 == indicatorExtremes.maxima[Len(indicatorExtremes.maxima) - 1]
             indMax2 == indicatorExtremes.maxima[Len(indicatorExtremes.maxima)]
         IN  IF Gt(priceMax2.value, priceMax1.value) /\ Lt(indMax2.value, indMax1.value)
             THEN << [type |-> "bearish",
                      indicator |-> indicatorName,
                      strength |-> calculateDivergenceStrength(priceMax1, priceMax2,
                                                               indMax1, indMax2),
                      pricePoints |-> <<priceMax1, priceMax2>>,
                      indicatorPoints |-> <<indMax1, indMax2>>,
                      description |-> <<indicatorName,
                          " bearish divergence: price making higher highs while ",
                          indicatorName, " shows lower highs">>] >>
             ELSE <<>>
    ELSE <<>>

\* the bearish block of checkIndicatorDivergence: at most one candidate
bearishCandidates(priceExtremes, indicatorExtremes, indicatorName) ==
    IF Len(priceExtremes.maxima) >= 2 /\ Len(indicatorExtremes.maxima) >= 2
    THEN LET priceMax1 == priceExtremes.maxima[Len(priceExtremes.maxima) - 1]
             priceMax2 == priceExtremes.maxima[Len(priceExtremes.maxima)]
             indMax1 == indicatorExtremes.maxima[Len(indicatorExtremes.maxima) - 1]
             indMax2 == indicatorExtremes.maxima[Len(indicatorExtremes.maxima)]
             strength == calculateDivergenceStrength(priceMax1, priceMax2, indMax1, indMax2)
         IN  IF Gt(priceMax2.value, priceMax1.value) /\ Lt(indMax2.value, indMax1.value)
                /\ Gt(strength, Frac(3, 10))
             THEN << [type |-> "bearish",
                      indicator |-> indicatorName,
                      strength |-> strength,
                      pricePoints |-> <<priceMax1, priceMax2>>,
                      indicatorPoints |-> <<indMax1, indMax2>>,
                      description |-> <<indicatorName,
                          " bearish divergence: price making higher highs while ",
                          indicatorName, " shows lower highs">>] >>
             ELSE <<>>
    ELSE <<>>

\* checkIndicatorDivergence looking for extremes in the whole history instead
\* of the last minBarsForDivergence values
checkIndicatorDivergenceWholeHistory(prices, indicatorValues, indicatorName) ==
    LET len == IF Len(prices) < Len(indicatorValues)
               THEN Len(prices) ELSE Len(indicatorValues)
    IN  IF len < minBarsForDivergence THEN <<>>
        ELSE bullishCandidates(findExtremes(prices), findExtremes(indicatorValues),
                               indicatorName)
             \o bearishCandidates(findExtremes(prices), findExtremes(indicatorValues),
                                  indicatorName)

checkIndicatorDivergence(prices, indicatorValues, indicatorName) ==
    LET len == IF Len(prices) < Len(indicatorValues)
               THEN Len(prices) ELSE Len(indicatorValues)
    IN  IF len < minBarsForDivergence THEN <<>>
        ELSE LET recentPrices == SliceLast(prices, minBarsForDivergence)
                 recentIndicator == SliceLast(indicatorValues, minBarsForDivergence)
                 priceExtremes == findExtremes(recentPrices)
                 indicatorExtremes == findExtremes(recentIndicator)
             IN  bullishCandidates(priceExtremes, indicatorExtremes, indicatorName)
                 \o bearishCandidates(priceExtremes, indicatorExtremes, indicatorName)

detectDivergences(det) ==
    IF Len(det.priceHistory) < minBarsForDivergence THEN <<>>
    ELSE checkIndicatorDivergence(det.priceHistory, det.indicatorHistory.rsi, "RSI")
         \o checkIndicatorDivergence(det.priceHistory, det.indicatorHistory.macd, "MACD")
         \o checkIndicatorDivergence(det.priceHistory, det.indicatorHistory.stochastic,
                                     "Stochastic")

(***************************************************************************)
(* Tick inputs.  Each is one processMarketData call's arguments: a price   *)
(* and the highs / lows / closes arrays handed in with it.                 *)
(***************************************************************************)
Const(n, v) == [i \in 1..n |-> Num(v)]

Nums(ints) == [i \in DOMAIN ints |-> Num(ints[i])]

\* closes end on a rise: RSI 100, fast EMA above slow, ADX 100, %K 50 > %D
TickRise ==
    [price |-> Num(4),
     highs |-> Const(14, 10) \o Nums(<<12>>),
     lows |-> Const(14, 10) \o Nums(<<11>>),
     closes |-> Const(14, 10) \o Nums(<<11>>)]

\* closes end on a fall: RSI 0, fast EMA below slow, ADX 100
TickFall ==
    [price |-> Num(2),
     highs |-> Const(14, 10) \o Nums(<<9>>),
     lows |-> Const(14, 10) \o Nums(<<9>>),
     closes |-> Const(14, 10) \o Nums(<<9>>)]

\* closes rise by 1 then fall by 3: RSI 25, fast EMA below slow, ADX 0
TickDip ==
    [price |-> Num(1),
     highs |-> Const(13, 10) \o Nums(<<13, 13>>),
     lows |-> Const(13, 10) \o Nums(<<10, 7>>),
     closes |-> Const(13, 10) \o Nums(<<11, 8>>)]

\* no bars yet: every indicator at its default
TickEmpty == [price |-> Num(8), highs |-> <<>>, lows |-> <<>>, closes |-> <<>>]

TickInputs == {TickRise, TickFall, TickDip, TickEmpty}

\* 26 bars, closes rise by 1 then fall by 5: RSI 1300/83, histogram < 0,
\* %K 100/7, fast EMA below slow, ADX 25
TickSlide ==
    [price |-> Num(2),
     highs |-> Const(24, 10) \o Nums(<<12, 7>>),
     lows |-> Const(24, 10) \o Nums(<<10, 5>>),
     closes |-> Const(24, 10) \o Nums(<<11, 6>>)]

\* 26 bars, closes rise by 1 then fall by 2: RSI 1300/41, histogram < 0 and
\* above that of TickSlide, %K 100/3, fast EMA below slow, ADX 25
TickEase ==
    [price |-> Num(1),
     highs |-> Const(24, 10) \o Nums(<<11, 10>>),
     lows |-> Const(24, 10) \o Nums(<<10, 8>>),
     closes |-> Const(24, 10) \o Nums(<<11, 9>>)]

\* 26 bars, closes rise by 1 then fall by 1, inside a wide range: RSI 1300/27,
\* histogram > 0, %K 500/11, fast EMA above slow, ADX 25
TickLevel ==
    [price |-> Num(1),
     highs |-> Const(24, 10) \o Nums(<<16, 10>>),
     lows |-> Const(24, 10) \o Nums(<<10, 5>>),
     closes |-> Const(24, 10) \o Nums(<<11, 10>>)]

\* sixteen bars, the last one up by 1, past the bars calculateADX reads: RSI 100,
\* %K 100, fast EMA above slow, ADX 25
TickDrift ==
    [price |-> Num(4),
     highs |-> Const(15, 10) \o Nums(<<11>>),
     lows |-> Const(16, 10),
     closes |-> Const(15, 10) \o Nums(<<11>>)]

\* the tick inputs of SpecSignals
SignalTickInputs ==
    {TickRise, TickEmpty, TickDip, TickSlide, TickEase, TickLevel, TickDrift}

BarsOf(t) == [highs |-> t.highs, lows |-> t.lows, closes |-> t.closes]

\* calculateAllIndicators on the bars of the tick inputs, computed once
IndicatorCache ==
    [b \in {BarsOf(t) : t \in TickInputs \cup SignalTickInputs} |->
        calculateAllIndicators(b.closes, b.highs, b.lows, b.closes)]

(***************************************************************************)
(* SignalEngine                                                            *)
(***************************************************************************)
engineMaxHistoryLength == 50

minConfidenceThreshold == Frac(6, 10)

\* JavaScript null (a returned null, a null stopLoss / takeProfit)
Null == [null |-> TRUE]

\* the fields of a freshly constructed SignalEngine
NewEngine == [divergenceDetector |-> NewDetector, indicatorHistory |-> <<>>]

\* 'MACD Histogram Rising' / 'MACD Histogram Falling': recent = history.slice(-3)
macdHistogramRising(current, history) ==
    IF Len(history) < 3 THEN FALSE
    ELSE LET recent == SliceLast(history, 3)
         IN  \A i \in 1..2 :
                 Gt(recent[i + 1].macd.histogram, recent[i].macd.histogram)

macdHistogramFalling(current, history) ==
    IF Len(history) < 3 THEN FALSE
    ELSE LET recent == SliceLast(history, 3)
         IN  \A i \in 1..2 :
                 Lt(recent[i + 1].macd.histogram, recent[i].macd.histogram)

\* 'RSI Oversold Recovery' / 'RSI Overbought Decline': prev = history[length - 1]
rsiOversoldRecovery(current, history) ==
    IF Len(history) < 2 THEN FALSE
    ELSE LET prev == history[Len(history)]
         IN  Lt(prev.rsi, Num(30)) /\ Gt(current.rsi, Num(30))

rsiOverboughtDecline(current, history) ==
    IF Len(history) < 2 THEN FALSE
    ELSE LET prev == history[Len(history)]
         IN  Gt(prev.rsi, Num(70)) /\ Lt(current.rsi, Num(70))

bullishConfirmationRules ==
    << [name |-> "MACD Histogram Rising", weight |-> Frac(30, 100)],
       [name |-> "EMA Fast Above Slow", weight |-> Frac(25, 100)],
       [name |-> "RSI Oversold Recovery", weight |-> Frac(20, 100)],
       [name |-> "ADX Strong Trend", weight |-> Frac(15, 100)],
       [name |-> "Stochastic Bullish", weight |-> Frac(10, 100)] >>

bearishConfirmationRules ==
    << [name |-> "MACD Histogram Falling", weight |-> Frac(30, 100)],
       [name |-> "EMA Fast Below Slow", weight |-> Frac(25, 100)],
       [name |-> "RSI Overbought Decline", weight |-> Frac(20, 100)],
       [name |-> "ADX Strong Trend", weight |-> Frac(15, 100)],
       [name |-> "Stochastic Bearish", weight |-> Frac(10, 100)] >>

\* rule.check(current, history) of the rule with this name
ruleCheck(name, current, history) ==
    CASE name = "MACD Histogram Rising" -> macdHistogramRising(current, history)
      [] name = "MACD Histogram Falling" -> macdHistogramFalling(current, history)
      [] name = "EMA Fast Above Slow" -> Gt(current.ema.fast, current.ema.slow)
      [] name = "EMA Fast Below Slow" -> Lt(current.ema.fast, current.ema.slow)
      [] name = "RSI Oversold Recovery" -> rsiOversoldRecovery(current, history)
      [] name = "RSI Overbought Decline" -> rsiOverboughtDecline(current, history)
      [] name = "ADX Strong Trend" -> Gt(current.adx, Num(25))
      [] name = "Stochastic Bullish" ->
             Gt(current.stochastic.k, current.stochastic.d)
             /\ Lt(current.stochastic.k, Num(80))
      [] name = "Stochastic Bearish" ->
             Lt(current.stochastic.k, current.stochastic.d)
             /\ Gt(current.stochastic.k, Num(20))

RECURSIVE confirmationsLoop(_, _, _, _)
confirmationsLoop(indicators, rules, history, st) ==
    IF st.i > Len(rules) THEN [count |-> st.count, score |-> st.score, reasons |-> st.reasons]
    ELSE confirmationsLoop(indicators, rules, history,
             IF ruleCheck(rules[st.i].name, indicators, history)
             THEN [i |-> st.i + 1,
                   count |-> st.count + 1,
                   score |-> Add(st.score, rules[st.i].weight),
                   reasons |-> Append(st.reasons, rules[st.i].name)]
             ELSE [st EXCEPT !.i = st.i + 1])

\* checkConfirmations with count++ outside the if
checkConfirmationsCountAll(indicators, rules, history) ==
    [confirmationsLoop(indicators, rules, history,
         [i |-> 1, count |-> 0, score |-> Num(0), reasons |-> <<>>])
     EXCEPT !.count = Len(rules)]

\* checkConfirmations; history is this.indicatorHistory
checkConfirmations(indicators, rules, history) ==
    confirmationsLoop(indicators, rules, history,
        [i |-> 1, count |-> 0, score |-> Num(0), reasons |-> <<>>])

\* reasons.join(sep), as the sequence of the pieces of the joined string
RECURSIVE join(_, _)
join(reasons, sep) ==
    IF Len(reasons) <= 1 THEN reasons
    ELSE <<Head(reasons), sep>> \o join(Tail(reasons), sep)

defaultHoldReason == <<"Mixed signals - insufficient confirmation for trade entry">>

\* generateHoldSignal carrying the bracket of a BUY
generateHoldSignalBracketed(symbol, price, indicators, reason) ==
    [pair |-> symbol,
     timeframe |-> "1m",
     signal |-> "HOLD",
     confidence |-> Frac(45, 100),
     reason |-> IF reason = <<>> THEN defaultHoldReason ELSE reason,
     entryPrice |-> price,
     entryType |-> "market",
     stopLoss |-> Mul(price, Frac(998, 1000)),
     takeProfit |-> Mul(price, Frac(1004, 1000)),
     predictionHorizonMins |-> 1,
     expectedMovePct |-> Num(0),
     indicatorValues |-> indicators,
     backtestStats |-> [winrate |-> Frac(5, 10), avgWinPct |-> Num(0),
                        avgLossPct |-> Num(0)]]

generateHoldSignal(symbol, price, indicators, reason) ==
    [pair |-> symbol,
     timeframe |-> "1m",
     signal |-> "HOLD",
     confidence |-> Frac(45, 100),
     reason |-> IF reason = <<>> THEN defaultHoldReason ELSE reason,
     entryPrice |-> price,
     entryType |-> "market",
     stopLoss |-> Null,
     takeProfit |-> Null,
     predictionHorizonMins |-> 1,
     expectedMovePct |-> Num(0),
     indicatorValues |-> indicators,
     backtestStats |-> [winrate |-> Frac(5, 10), avgWinPct |-> Num(0),
                        avgLossPct |-> Num(0)]]

\* the confidence without its Math.min(0.95, ...) clamp
signalConfidenceUnclamped(score, strength) ==
    Add(Add(Frac(6, 10), Mul(score, Frac(35, 100))), Mul(strength, Frac(2, 10)))

\* the confidence with the two factors exchanged: score * 0.2 + strength * 0.35
signalConfidenceSwapped(score, strength) ==
    MathMin(Frac(95, 100),
            Add(Add(Frac(6, 10), Mul(score, Frac(2, 10))), Mul(strength, Frac(35, 100))))

\* the confidence without its base of 0.6: score * 0.35 + strength * 0.2
signalConfidenceWithoutBase(score, strength) ==
    MathMin(Frac(95, 100), Add(Mul(score, Frac(35, 100)), Mul(strength, Frac(2, 10))))

\* Math.min(0.95, 0.6 + score * 0.35 + strength * 0.2)
signalConfidence(score, strength) ==
    MathMin(Frac(95, 100),
            Add(Add(Frac(6, 10), Mul(score, Frac(35, 100))), Mul(strength, Frac(2, 10))))

\* generateBuySignal once checkConfirmations has returned confirmations
buySignal(symbol, price, indicators, divergence, confirmations) ==
    LET confidence == signalConfidence(confirmations.score, divergence.strength)
    IN  IF confirmations.count < 2
        THEN generateHoldSignal(symbol, price, indicators,
                 <<"Bullish divergence detected but insufficient confirmation (",
                   ToString(confirmations.count), "/2)">>)
        ELSE IF Lt(confidence, minConfidenceThreshold) THEN Null
        ELSE [pair |-> symbol,
              timeframe |-> "1m",
              signal |-> "BUY",
              confidence |-> confidence,
              reason |-> divergence.description \o <<" + ">>
                         \o join(confirmations.reasons, " + ")
                         \o <<" (", ToString(confirmations.count), "/2)">>,
              entryPrice |-> price,
              entryType |-> "market",
              stopLoss |-> Mul(price, Frac(998, 1000)),
              takeProfit |-> Mul(price, Frac(1004, 1000)),
              predictionHorizonMins |-> 5,
              expectedMovePct |-> Frac(3, 10),
              indicatorValues |-> indicators,
              backtestStats |-> [winrate |-> Frac(67, 100), avgWinPct |-> Frac(4, 10),
                                 avgLossPct |-> Frac(2, 10)]]

\* generateBuySignal returning null, not a HOLD, on fewer than 2 confirmations
generateBuySignalNullOnWeak(symbol, price, indicators, divergence, history) ==
    LET confirmations == checkConfirmations(indicators, bullishConfirmationRules, history)
    IN  IF confirmations.count < 2 THEN Null
        ELSE buySignal(symbol, price, indicators, divergence, confirmations)

\* generateBuySignal checking the bearish table
generateBuySignalBearishTable(symbol, price, indicators, divergence, history) ==
    buySignal(symbol, price, indicators, divergence,
        checkConfirmations(indicators, bearishConfirmationRules, history))

generateBuySignal(symbol, price, indicators, divergence, history) ==
    buySignal(symbol, price, indicators, divergence,
        checkConfirmations(indicators, bullishConfirmationRules, history))

\* generateSellSignal once checkConfirmations has returned confirmations
\* sellSignal with the bracket of a BUY: stop below the price, target above it
sellSignalBuyBracket(symbol, price, indicators, divergence, confirmations) ==
    IF confirmations.count < 2
    THEN generateHoldSignal(symbol, price, indicators,
             <<"Bearish divergence detected but insufficient confirmation (",
               ToString(confirmations.count), "/2)">>)
    ELSE [pair |-> symbol,
          timeframe |-> "1m",
          signal |-> "SELL",
          confidence |-> signalConfidence(confirmations.score, divergence.strength),
          reason |-> divergence.description \o <<" + ">>
                     \o join(confirmations.reasons, " + ")
                     \o <<" (", ToString(confirmations.count), "/2)">>,
          entryPrice |-> price,
          entryType |-> "market",
          stopLoss |-> Mul(price, Frac(998, 1000)),
          takeProfit |-> Mul(price, Frac(1004, 1000)),
          predictionHorizonMins |-> 5,
          expectedMovePct |-> Frac(-3, 10),
          indicatorValues |-> indicators,
          backtestStats |-> [winrate |-> Frac(64, 100), avgWinPct |-> Frac(4, 10),
                             avgLossPct |-> Frac(25, 100)]]

sellSignal(symbol, price, indicators, divergence, confirmations) ==
    LET confidence == signalConfidence(confirmations.score, divergence.strength)
    IN  IF confirmations.count < 2
        THEN generateHoldSignal(symbol, price, indicators,
                 <<"Bearish divergence detected but insufficient confirmation (",
                   ToString(confirmations.count), "/2)">>)
        ELSE IF Lt(confidence, minConfidenceThreshold) THEN Null
        ELSE [pair |-> symbol,
              timeframe |-> "1m",
              signal |-> "SELL",
              confidence |-> confidence,
              reason |-> divergence.description \o <<" + ">>
                         \o join(confirmations.reasons, " + ")
                         \o <<" (", ToString(confirmations.count), "/2)">>,
              entryPrice |-> price,
              entryType |-> "market",
              stopLoss |-> Mul(price, Frac(1002, 1000)),
              takeProfit |-> Mul(price, Frac(996, 1000)),
              predictionHorizonMins |-> 5,
              expectedMovePct |-> Frac(-3, 10),
              indicatorValues |-> indicators,
              backtestStats |-> [winrate |-> Frac(64, 100), avgWinPct |-> Frac(4, 10),
                                 avgLossPct |-> Frac(25, 100)]]

\* generateSellSignal with the insufficient-confirmation branch pasted from
\* generateBuySignal: the message says Bullish
generateSellSignalBullishText(symbol, price, indicators, divergence, history) ==
    IF checkConfirmations(indicators, bearishConfirmationRules, history).count < 2
    THEN buySignal(symbol, price, indicators, divergence,
             checkConfirmations(indicators, bearishConfirmationRules, history))
    ELSE sellSignal(symbol, price, indicators, divergence,
             checkConfirmations(indicators, bearishConfirmationRules, history))

generateSellSignal(symbol, price, indicators, divergence, history) ==
    sellSignal(symbol, price, indicators, divergence,
        checkConfirmations(indicators, bearishConfirmationRules, history))

\* the filter with the detector's 0.3 as its threshold
strongOfDetected(divergences) == SelectSeq(divergences, LAMBDA d : Gt(d.strength, Frac(3, 10)))

\* divergences.filter(d => d.strength > 0.5)
strongOf(divergences) == SelectSeq(divergences, LAMBDA d : Gt(d.strength, Frac(5, 10)))

\* strong.reduce((prev, current) => current.strength > prev.strength ? current : prev)
RECURSIVE strongestLoop(_, _)
strongestLoop(strong, st) ==
    IF st.i > Len(strong) THEN st.prev
    ELSE strongestLoop(strong,
             [i |-> st.i + 1,
              prev |-> IF Gt(strong[st.i].strength, st.prev.strength)
                       THEN strong[st.i] ELSE st.prev])

\* the reduce with >= for >: among equals the last one wins
RECURSIVE strongestLoopLast(_, _)
strongestLoopLast(strong, st) ==
    IF st.i > Len(strong) THEN st.prev
    ELSE strongestLoopLast(strong,
             [i |-> st.i + 1,
              prev |-> IF Ge(strong[st.i].strength, st.prev.strength)
                       THEN strong[st.i] ELSE st.prev])

primaryOfLast(strong) == strongestLoopLast(strong, [i |-> 2, prev |-> strong[1]])

primaryOf(strong) == strongestLoop(strong, [i |-> 2, prev |-> strong[1]])

\* the push with a trim that keeps the oldest entries: slice(0, maxHistoryLength)
pushSnapshotKeepOldest(history, indicators) ==
    LET h == Append(history, indicators)
    IN  IF Len(h) > engineMaxHistoryLength THEN SubSeq(h, 1, engineMaxHistoryLength) ELSE h

\* this.indicatorHistory after the push and the trim of processMarketData
pushSnapshot(history, indicators) ==
    LET h == Append(history, indicators)
    IN  IF Len(h) > engineMaxHistoryLength THEN SliceLast(h, engineMaxHistoryLength) ELSE h

\* calculateAllIndicators(closes, highs, lows, closes), read from IndicatorCache
\* when the bars are those of a tick input
indicatorsOf(highs, lows, closes) ==
    LET bars == [highs |-> highs, lows |-> lows, closes |-> closes]
    IN  IF bars \in DOMAIN IndicatorCache THEN IndicatorCache[bars]
        ELSE calculateAllIndicators(closes, highs, lows, closes)

\* processMarketData from the filter of the strong divergences on: history and
\* det are the engine's fields after the push and addDataPoint, divergences is
\* what detectDivergences returned
dispatch(symbol, price, indicators, history, det, divergences) ==
    LET strongDivergences == strongOf(divergences)
        primaryDivergence ==
            IF Len(strongDivergences) = 0 THEN Null ELSE primaryOf(strongDivergences)
        rules == IF primaryDivergence = Null THEN <<>>
                 ELSE IF primaryDivergence.type = "bullish" THEN bullishConfirmationRules
                 ELSE bearishConfirmationRules
    IN  [engine |-> [divergenceDetector |-> det, indicatorHistory |-> history],
         result |->
            IF Len(strongDivergences) = 0
            THEN generateHoldSignal(symbol, price, indicators, <<>>)
            ELSE IF primaryDivergence.type = "bullish"
            THEN generateBuySignal(symbol, price, indicators, primaryDivergence, history)
            ELSE IF primaryDivergence.type = "bearish"
            THEN generateSellSignal(symbol, price, indicators, primaryDivergence, history)
            ELSE generateHoldSignal(symbol, price, indicators, <<>>),
         call |-> [symbol |-> symbol,
                   price |-> price,
                   indicators |-> indicators,
                   divergences |-> divergences,
                   strong |-> strongDivergences,
                   primary |-> primaryDivergence,
                   confirmations |-> checkConfirmations(indicators, rules, history)]]

\* processMarketData once the indicators are computed: the push, addDataPoint
\* and detectDivergences
processIndicators(eng, symbol, price, indicators) ==
    LET det == addDataPoint(eng.divergenceDetector, price, indicators)
    IN  dispatch(symbol, price, indicators,
            pushSnapshot(eng.indicatorHistory, indicators), det, detectDivergences(det))

\* processMarketData on an engine with fields eng: the fields after the call
\* (engine), the value returned (result) and what was computed on the way (call)
processMarketData(eng, symbol, price, highs, lows, closes) ==
    processIndicators(eng, symbol, price, indicatorsOf(highs, lows, closes))

\* most processMarketData calls made on one engine in Spec, SpecReplay, SpecShared
MaxTicks == 5

\* no call made yet
NoCall == [none |-> TRUE]

\* r is a returned signal (not the null of the suppression branch)
IsSignal(r) == r # NoCall /\ r # Null

(***************************************************************************)
(* Spec: one SignalEngine fed ticks of one instrument                      *)
(***************************************************************************)
Init ==
    /\ engine = NewEngine
    /\ result = NoCall
    /\ call = NoCall
    /\ ticks = 0
    /\ script = <<>>
    /\ other = NewEngine
    /\ fed = <<>>
    /\ results = <<>>
    /\ otherResults = <<>>
    /\ detector = NewDetector
    /\ candidates = NoCall
    /\ fn = NoCall
    /\ finnhub = NoCall
    /\ demo = NoCall
    /\ forex = NoCall

Tick ==
    /\ ticks < MaxTicks
    /\ \E t \in TickInputs :
           \E r \in {processMarketData(engine, "EURUSD", t.price, t.highs, t.lows, t.closes)} :
               /\ engine' = r.engine
               /\ result' = r.result
               /\ call' = r.call
    /\ ticks' = ticks + 1
    /\ UNCHANGED <<script, other, fed, results, otherResults, detector, candidates, fn,
                   finnhub, demo, forex>>

Next == Tick

Spec == Init /\ [][Next]_vars

(***************************************************************************)
(* SpecHistory: one SignalEngine fed a long cyclic script of ticks, long   *)
(* enough for both history caps to be exceeded                             *)
(***************************************************************************)
\* most processMarketData calls made on one engine in SpecHistory
MaxLongTicks == 102

Scripts == {<<a>> : a \in TickInputs} \cup {<<a, b>> : a, b \in TickInputs}

InitHistory ==
    /\ script \in Scripts
    /\ engine = NewEngine
    /\ result = NoCall
    /\ call = NoCall
    /\ ticks = 0
    /\ other = NewEngine
    /\ fed = <<>>
    /\ results = <<>>
    /\ otherResults = <<>>
    /\ detector = NewDetector
    /\ candidates = NoCall
    /\ fn = NoCall
    /\ finnhub = NoCall
    /\ demo = NoCall
    /\ forex = NoCall

ScriptTick ==
    /\ ticks < MaxLongTicks
    /\ \E t \in {script[(ticks % Len(script)) + 1]} :
           \E r \in {processMarketData(engine, "EURUSD", t.price, t.highs, t.lows, t.closes)} :
               /\ engine' = r.engine
               /\ result' = r.result
               /\ call' = r.call
    /\ ticks' = ticks + 1
    /\ UNCHANGED <<script, other, fed, results, otherResults, detector, candidates, fn,
                   finnhub, demo, forex>>

NextHistory == ScriptTick

SpecHistory == InitHistory /\ [][NextHistory]_vars

(***************************************************************************)
(* SpecReplay: a SignalEngine is fed ticks; a second, freshly constructed  *)
(* SignalEngine is fed the same ticks again, at its own pace               *)
(***************************************************************************)
Feed ==
    /\ Len(fed) < MaxTicks
    /\ \E t \in TickInputs :
           \E r \in {processMarketData(engine, "EURUSD", t.price, t.highs, t.lows, t.closes)} :
               /\ engine' = r.engine
               /\ result' = r.result
               /\ call' = r.call
               /\ results' = Append(results, r.result)
               /\ fed' = Append(fed, t)
    /\ ticks' = ticks + 1
    /\ UNCHANGED <<script, other, otherResults, detector, candidates, fn,
                   finnhub, demo, forex>>

Replay ==
    /\ Len(otherResults) < Len(fed)
    /\ \E t \in {fed[Len(otherResults) + 1]} :
           \E r \in {processMarketData(other, "EURUSD", t.price, t.highs, t.lows, t.closes)} :
               /\ other' = r.engine
               /\ otherResults' = Append(otherResults, r.result)
    /\ UNCHANGED <<engine, result, call, ticks, script, fed, results, detector,
                   candidates, fn,
                   finnhub, demo, forex>>

NextReplay == Feed \/ Replay

SpecReplay == Init /\ [][NextReplay]_vars

(***************************************************************************)
(* SpecShared: ticks of two instruments are fed to one SignalEngine, told  *)
(* apart by the symbol argument; the ticks of the first instrument are     *)
(* also fed, alone, to a second SignalEngine                               *)
(***************************************************************************)
SymbolA == "EURUSD"

SymbolB == "GBPUSD"

TickInputsB == {TickRise, TickDip}

TickOfA ==
    /\ ticks < MaxTicks
    /\ \E t \in TickInputs :
           \E r \in {processMarketData(engine, SymbolA, t.price, t.highs, t.lows, t.closes)},
              alone \in {processMarketData(other, SymbolA, t.price, t.highs, t.lows, t.closes)} :
               /\ engine' = r.engine
               /\ result' = r.result
               /\ call' = r.call
               /\ results' = Append(results, r.result)
               /\ other' = alone.engine
               /\ otherResults' = Append(otherResults, alone.result)
    /\ ticks' = ticks + 1
    /\ UNCHANGED <<script, fed, detector, candidates, fn,
                   finnhub, demo, forex>>

TickOfB ==
    /\ ticks < MaxTicks
    /\ \E t \in TickInputsB :
           \E r \in {processMarketData(engine, SymbolB, t.price, t.highs, t.lows, t.closes)} :
               /\ engine' = r.engine
               /\ result' = r.result
               /\ call' = r.call
    /\ ticks' = ticks + 1
    /\ UNCHANGED <<script, other, fed, results, otherResults, detector, candidates, fn,
                   finnhub, demo, forex>>

NextShared == TickOfA \/ TickOfB

SpecShared == Init /\ [][NextShared]_vars

(***************************************************************************)
(* SpecDetector: a DivergenceDetector driven directly through              *)
(* addDataPoint and detectDivergences                                      *)
(***************************************************************************)
\* an IndicatorResult with the three values the detector reads
Snapshot(rsi, histogram, k) ==
    [rsi |-> rsi,
     macd |-> [macd |-> Num(0), signal |-> Num(0), histogram |-> histogram],
     stochastic |-> [k |-> k, d |-> Num(50)],
     ema |-> [fast |-> Num(0), slow |-> Num(0)],
     adx |-> Num(25)]

PointHigh == [price |-> Num(5), indicators |-> Snapshot(Num(60), Num(2), Num(80))]

PointLow == [price |-> Num(3), indicators |-> Snapshot(Num(10), Num(0), Num(20))]

PointLower == [price |-> Num(1), indicators |-> Snapshot(Num(50), Num(1), Num(30))]

PointHigher == [price |-> Num(7), indicators |-> Snapshot(Num(40), Num(1), Num(60))]

PointPeak == [price |-> Num(9), indicators |-> Snapshot(Num(30), Num(0), Num(40))]

DataPoints == {PointHigh, PointLow, PointLower, PointHigher, PointPeak}

\* most addDataPoint calls made on the detector in SpecDetector
MaxPoints == 6

AddDataPoint ==
    /\ ticks < MaxPoints
    /\ \E p \in DataPoints : detector' = addDataPoint(detector, p.price, p.indicators)
    /\ ticks' = ticks + 1
    /\ candidates' = NoCall
    /\ UNCHANGED <<engine, result, call, script, other, fed, results, otherResults, fn,
                   finnhub, demo, forex>>

DetectDivergences ==
    /\ candidates = NoCall
    /\ candidates' = [added |-> ticks, found |-> detectDivergences(detector)]
    /\ UNCHANGED <<engine, result, call, ticks, script, other, fed, results,
                   otherResults, detector, fn,
                   finnhub, demo, forex>>

NextDetector == AddDataPoint \/ DetectDivergences

SpecDetector == Init /\ [][NextDetector]_vars

(***************************************************************************)
(* SpecStrength: calculateDivergenceStrength called once on two price      *)
(* extrema and two indicator extrema                                       *)
(***************************************************************************)
PriceValues == {Num(-3), Num(-2), Num(0), Num(2), Num(3)}

IndicatorValues == {Num(-1), Num(0), Num(10), Num(50)}

\* largest index of an extreme point in SpecStrength
MaxIndex == 5

CallStrength ==
    /\ fn = NoCall
    /\ finnhub = NoCall
    /\ demo = NoCall
    /\ forex = NoCall
    /\ \E v1, v2 \in PriceValues, w1, w2 \in IndicatorValues, x1, x2 \in 0..MaxIndex :
           LET point1 == [index |-> x1, value |-> v1]
               point2 == [index |-> x2, value |-> v2]
               indPoint1 == [index |-> x1, value |-> w1]
               indPoint2 == [index |-> x2, value |-> w2]
           IN  fn' = [point1 |-> point1, point2 |-> point2,
                      indPoint1 |-> indPoint1, indPoint2 |-> indPoint2,
                      strength |-> calculateDivergenceStrength(point1, point2,
                                                               indPoint1, indPoint2)]
    /\ UNCHANGED <<engine, result, call, ticks, script, other, fed, results,
                   otherResults, detector, candidates,
                   finnhub, demo, forex>>

NextStrength == CallStrength

SpecStrength == Init /\ [][NextStrength]_vars

(***************************************************************************)
(* SpecIndicators: the indicators computed once on a bar series            *)
(***************************************************************************)
\* longest bar series in SpecIndicators
MaxBars == 27

\* n closes: a flat run at 10, the last two closes moved by t1 and t2
Series(n, t1, t2) ==
    [i \in 1..n |-> IF i = n THEN Num(10 + t2)
                    ELSE IF i = n - 1 THEN Num(10 + t1) ELSE Num(10)]

Shift(series, by) == [i \in DOMAIN series |-> Add(series[i], Num(by))]

CallIndicators ==
    /\ fn = NoCall
    /\ finnhub = NoCall
    /\ demo = NoCall
    /\ forex = NoCall
    /\ \E n \in 0..MaxBars, t1, t2 \in {-1, 0, 1}, spread \in {0, 1} :
           \E closes \in {Series(n, t1, t2)} :
           \E highs \in {Shift(closes, spread)}, lows \in {Shift(closes, -spread)} :
               fn' = [closes |-> closes, highs |-> highs, lows |-> lows,
                      rsi |-> calculateRSI(closes),
                      macd |-> calculateMACD(closes),
                      stochastic |-> calculateStochastic(highs, lows, closes),
                      adx |-> calculateADX(highs, lows, closes)]
    /\ UNCHANGED <<engine, result, call, ticks, script, other, fed, results,
                   otherResults, detector, candidates,
                   finnhub, demo, forex>>

NextIndicators == CallIndicators

SpecIndicators == Init /\ [][NextIndicators]_vars

(***************************************************************************)
(* SpecRsi: calculateRSI called once on a price series made of two ramps   *)
(***************************************************************************)
\* longest price series in SpecRsi
MaxRsiBars == 17

\* the steps a ramp can make from one price to the next
RampSteps == {-2, -1, 0, 1, 2}

\* n prices from 100: the first k steps are d1 each, the steps after them d2 each
Ramp(n, k, d1, d2) ==
    [i \in 1..n |-> IF i - 1 <= k THEN Num(100 + (i - 1) * d1)
                    ELSE Num(100 + k * d1 + (i - 1 - k) * d2)]

CallRSI ==
    /\ fn = NoCall
    /\ finnhub = NoCall
    /\ demo = NoCall
    /\ forex = NoCall
    /\ \E n \in 0..MaxRsiBars, k \in 0..MaxRsiBars, d1, d2 \in RampSteps :
           /\ k <= n
           /\ \E prices \in {Ramp(n, k, d1, d2)} :
                  fn' = [prices |-> prices, rsi |-> calculateRSI(prices)]
    /\ UNCHANGED <<engine, result, call, ticks, script, other, fed, results,
                   otherResults, detector, candidates,
                   finnhub, demo, forex>>

NextRsi == CallRSI

SpecRsi == Init /\ [][NextRsi]_vars

(***************************************************************************)
(* SpecEma: calculateEMA called once on a series that is constant, or      *)
(* constant up to its last sample                                          *)
(***************************************************************************)
\* longest price series in SpecEma
MaxEmaLen == 5

\* largest period in SpecEma (the slow MACD period is the largest the code uses)
MaxEmaPeriod == 26

\* the constants a series is made of
EmaLevels == {Num(0), Num(1), Frac(6, 5), Frac(-3, 2)}

\* n samples equal to c, the last one raised by d
Level(n, c, d) == [i \in 1..n |-> IF i = n THEN Add(c, Num(d)) ELSE c]

CallEMA ==
    /\ fn = NoCall
    /\ finnhub = NoCall
    /\ demo = NoCall
    /\ forex = NoCall
    /\ \E n \in 0..MaxEmaLen, period \in 1..MaxEmaPeriod, c \in EmaLevels, d \in {0, 1} :
           \E prices \in {Level(n, c, d)} :
               fn' = [prices |-> prices, period |-> period,
                      ema |-> calculateEMA(prices, period)]
    /\ UNCHANGED <<engine, result, call, ticks, script, other, fed, results,
                   otherResults, detector, candidates,
                   finnhub, demo, forex>>

NextEma == CallEMA

SpecEma == Init /\ [][NextEma]_vars

(***************************************************************************)
(* SpecConfirm: checkConfirmations called once with either rule table, on  *)
(* a history whose last entry is the current snapshot, as processMarketData*)
(* leaves it                                                               *)
(***************************************************************************)
\* most snapshots in the history before the current one in SpecConfirm
MaxEarlier == 2

RuleSnapshot(rsi, histogram, fast, adx, k) ==
    [rsi |-> Num(rsi),
     macd |-> [macd |-> Num(0), signal |-> Num(0), histogram |-> Num(histogram)],
     stochastic |-> [k |-> Num(k), d |-> Num(50)],
     ema |-> [fast |-> Num(fast), slow |-> Num(2)],
     adx |-> Num(adx)]

\* the snapshots of the current tick
CurrentSnapshots ==
    {RuleSnapshot(rsi, histogram, fast, adx, k) :
        rsi \in {20, 50, 80}, histogram \in {-1, 0, 1}, fast \in {1, 3},
        adx \in {20, 30}, k \in {10, 40, 60, 90}}

\* the snapshots of earlier ticks
EarlierSnapshots ==
    {RuleSnapshot(rsi, histogram, 1, 20, 10) : rsi \in {20, 80}, histogram \in {-1, 0, 1}}

RuleTables == {bullishConfirmationRules, bearishConfirmationRules}

CallCheckConfirmations ==
    /\ fn = NoCall
    /\ finnhub = NoCall
    /\ demo = NoCall
    /\ forex = NoCall
    /\ \E n \in 0..MaxEarlier :
           \E earlier \in [1..n -> EarlierSnapshots], indicators \in CurrentSnapshots,
              rules \in RuleTables :
               \E history \in {Append(earlier, indicators)} :
                   fn' = [indicators |-> indicators, history |-> history, rules |-> rules,
                          confirmations |-> checkConfirmations(indicators, rules, history)]
    /\ UNCHANGED <<engine, result, call, ticks, script, other, fed, results,
                   otherResults, detector, candidates,
                   finnhub, demo, forex>>

NextConfirm == CallCheckConfirmations

SpecConfirm == Init /\ [][NextConfirm]_vars

(***************************************************************************)
(* SpecSession: one SignalEngine fed ticks of one instrument across a      *)
(* session boundary.  SignalEngine and DivergenceDetector have no method   *)
(* besides processMarketData, addDataPoint and detectDivergences, so the   *)
(* boundary reaches no code and leaves every field as it is; ticks counts  *)
(* the ticks fed since the boundary                                        *)
(***************************************************************************)
SessionTick ==
    /\ Len(fed) < MaxTicks
    /\ \E t \in TickInputs :
           \E r \in {processMarketData(engine, "EURUSD", t.price, t.highs, t.lows, t.closes)} :
               /\ engine' = r.engine
               /\ result' = r.result
               /\ call' = r.call
               /\ fed' = Append(fed, t)
    /\ ticks' = ticks + 1
    /\ UNCHANGED <<script, other, results, otherResults, detector, candidates, fn,
                   finnhub, demo, forex>>

SessionBoundary ==
    /\ script = <<>>
    /\ Len(fed) > 0
    /\ script' = <<"EURUSD">>
    /\ ticks' = 0
    /\ UNCHANGED <<engine, result, call, other, fed, results, otherResults, detector,
                   candidates, fn,
                   finnhub, demo, forex>>

NextSession == SessionTick \/ SessionBoundary

SpecSession == Init /\ [][NextSession]_vars

(***************************************************************************)
(* SpecSignals: one SignalEngine fed ticks whose bars give weak and strong *)
(* candidates on RSI, MACD and Stochastic and counts of confirmations from *)
(* 0 to 3                                                                  *)
(***************************************************************************)
\* most processMarketData calls made on the engine in SpecSignals
MaxSignalTicks == 5

SignalTick ==
    /\ ticks < MaxSignalTicks
    /\ \E t \in SignalTickInputs :
           \E r \in {processMarketData(engine, "EURUSD", t.price, t.highs, t.lows, t.closes)} :
               /\ engine' = r.engine
               /\ result' = r.result
               /\ call' = r.call
    /\ ticks' = ticks + 1
    /\ UNCHANGED <<script, other, fed, results, otherResults, detector, candidates, fn,
                   finnhub, demo, forex>>

NextSignals == SignalTick

SpecSignals == Init /\ [][NextSignals]_vars

(***************************************************************************)
(* SpecFinnhub: a FinnhubService, the WebSockets it created and its timers *)
(*                                                                         *)
(* sockets[s] is the readyState of the s-th socket created by connect();   *)
(* ABORTED is a socket closed while CONNECTING, whose 'error' and 'close'  *)
(* events are still to be emitted.  ws is the index of this.ws, 0 for      *)
(* null.  reconnectInterval is the state of the timeout this field refers  *)
(* to; a timeout whose handle was overwritten while it was pending is      *)
(* counted in orphanTimeouts, an interval whose handle was overwritten in  *)
(* orphanPings.  status is the last mode handed to onSystemStatusCallback  *)
(* and caller the last of connect() / disconnect() the owner called.  The  *)
(* reconnect delay and the trade messages are not modelled.                *)
(***************************************************************************)
maxReconnectAttempts == 5

\* most WebSockets created in SpecFinnhub
MaxSockets == 3

InitFinnhub ==
    /\ engine = NewEngine
    /\ result = NoCall
    /\ call = NoCall
    /\ ticks = 0
    /\ script = <<>>
    /\ other = NewEngine
    /\ fed = <<>>
    /\ results = <<>>
    /\ otherResults = <<>>
    /\ detector = NewDetector
    /\ candidates = NoCall
    /\ fn = NoCall
    /\ finnhub = [isConnected |-> FALSE,
                  ws |-> 0,
                  sockets |-> <<>>,
                  reconnectInterval |-> "null",
                  orphanTimeouts |-> 0,
                  pingInterval |-> FALSE,
                  orphanPings |-> 0,
                  reconnectAttempts |-> 0,
                  status |-> "none",
                  caller |-> "none"]
    /\ demo = NoCall
    /\ forex = NoCall

\* connect() on a service with fields svc
finnhubConnect(svc) ==
    IF svc.isConnected \/ (svc.ws # 0 /\ svc.sockets[svc.ws] = "OPEN") THEN svc
    ELSE [svc EXCEPT !.sockets = Append(svc.sockets, "CONNECTING"),
                     !.ws = Len(svc.sockets) + 1]

scheduleReconnect(svc) ==
    IF svc.reconnectAttempts >= maxReconnectAttempts THEN [svc EXCEPT !.status = "offline"]
    ELSE [svc EXCEPT !.reconnectAttempts = svc.reconnectAttempts + 1,
                     !.orphanTimeouts = IF svc.reconnectInterval = "pending"
                                        THEN svc.orphanTimeouts + 1
                                        ELSE svc.orphanTimeouts,
                     !.reconnectInterval = "pending"]

clearIntervals(svc) ==
    [svc EXCEPT !.reconnectInterval = "null", !.pingInterval = FALSE]

\* the owner calls connect()
FinnhubConnect ==
    /\ Len(finnhub.sockets) < MaxSockets
    /\ finnhub' = [finnhubConnect(finnhub) EXCEPT !.caller = "connect"]
    /\ UNCHANGED <<engine, result, call, ticks, script, other, fed, results, otherResults,
                   detector, candidates, fn, demo, forex>>

\* the 'open' event of socket s
FinnhubOpen ==
    /\ \E s \in 1..Len(finnhub.sockets) :
           /\ finnhub.sockets[s] = "CONNECTING"
           /\ finnhub' = [finnhub EXCEPT !.sockets[s] = "OPEN",
                                         !.isConnected = TRUE,
                                         !.reconnectAttempts = 0,
                                         !.orphanPings = IF finnhub.pingInterval
                                                         THEN finnhub.orphanPings + 1
                                                         ELSE finnhub.orphanPings,
                                         !.pingInterval = TRUE,
                                         !.status = "live"]
    /\ UNCHANGED <<engine, result, call, ticks, script, other, fed, results, otherResults,
                   detector, candidates, fn, demo, forex>>

\* the 'error' event of socket s; its 'close' event follows
FinnhubError ==
    /\ \E s \in 1..Len(finnhub.sockets) :
           /\ finnhub.sockets[s] \in {"CONNECTING", "OPEN", "ABORTED"}
           /\ finnhub' = [scheduleReconnect([finnhub EXCEPT !.isConnected = FALSE])
                              EXCEPT !.sockets[s] = "CLOSING"]
    /\ UNCHANGED <<engine, result, call, ticks, script, other, fed, results, otherResults,
                   detector, candidates, fn, demo, forex>>

\* the 'close' event of socket s
FinnhubClose ==
    /\ \E s \in 1..Len(finnhub.sockets) :
           /\ finnhub.sockets[s] \in {"OPEN", "CLOSING"}
           /\ finnhub' = [scheduleReconnect(clearIntervals(
                                                [finnhub EXCEPT !.isConnected = FALSE]))
                              EXCEPT !.sockets[s] = "CLOSED"]
    /\ UNCHANGED <<engine, result, call, ticks, script, other, fed, results, otherResults,
                   detector, candidates, fn, demo, forex>>

\* a timeout set by scheduleReconnect fires and calls connect()
FinnhubReconnect ==
    /\ Len(finnhub.sockets) < MaxSockets
    /\ \/ /\ finnhub.reconnectInterval = "pending"
          /\ finnhub' = finnhubConnect([finnhub EXCEPT !.reconnectInterval = "fired"])
       \/ /\ finnhub.orphanTimeouts > 0
          /\ finnhub' = finnhubConnect(
                            [finnhub EXCEPT !.orphanTimeouts = finnhub.orphanTimeouts - 1])
    /\ UNCHANGED <<engine, result, call, ticks, script, other, fed, results, otherResults,
                   detector, candidates, fn, demo, forex>>

\* the owner calls disconnect()
FinnhubDisconnect ==
    /\ finnhub' = [clearIntervals(finnhub) EXCEPT
                       !.isConnected = FALSE,
                       !.sockets = [s \in DOMAIN finnhub.sockets |->
                                        CASE s = finnhub.ws /\ finnhub.sockets[s] = "OPEN"
                                                 -> "CLOSING"
                                          [] s = finnhub.ws
                                             /\ finnhub.sockets[s] = "CONNECTING"
                                                 -> "ABORTED"
                                          [] OTHER -> finnhub.sockets[s]],
                       !.ws = 0,
                       !.status = "offline",
                       !.caller = "disconnect"]
    /\ UNCHANGED <<engine, result, call, ticks, script, other, fed, results, otherResults,
                   detector, candidates, fn, demo, forex>>

NextFinnhub ==
    \/ FinnhubConnect
    \/ FinnhubOpen
    \/ FinnhubError
    \/ FinnhubClose
    \/ FinnhubReconnect
    \/ FinnhubDisconnect

SpecFinnhub == InitFinnhub /\ [][NextFinnhub]_vars

(***************************************************************************)
(* SpecDemo: a DemoDataService and the timers it set                       *)
(*                                                                         *)
(* intervalId and signalIntervalId tell whether the field holds a handle;  *)
(* marketIntervals, signalIntervals and statusIntervals count the active   *)
(* setInterval timers of each kind and statusTimeouts the pending          *)
(* setTimeout calls of start().  callbacks tells whether setCallbacks was  *)
(* called, caller is the last of start() / stop() the owner called and     *)
(* invoked the callbacks invoked since that call.  The generated prices    *)
(* and signals are not modelled.                                           *)
(***************************************************************************)
\* most start() calls that start the service in SpecDemo
MaxStarts == 4

InitDemo ==
    /\ engine = NewEngine
    /\ result = NoCall
    /\ call = NoCall
    /\ ticks = 0
    /\ script = <<>>
    /\ other = NewEngine
    /\ fed = <<>>
    /\ results = <<>>
    /\ otherResults = <<>>
    /\ detector = NewDetector
    /\ candidates = NoCall
    /\ fn = NoCall
    /\ finnhub = NoCall
    /\ \E set \in BOOLEAN :
           demo = [isRunning |-> FALSE,
                   intervalId |-> FALSE,
                   signalIntervalId |-> FALSE,
                   marketIntervals |-> 0,
                   signalIntervals |-> 0,
                   statusIntervals |-> 0,
                   statusTimeouts |-> 0,
                   callbacks |-> set,
                   starts |-> 0,
                   caller |-> "none",
                   invoked |-> {}]
    /\ forex = NoCall

\* the owner calls start()
DemoStart ==
    /\ demo.starts < MaxStarts
    /\ demo' = IF demo.isRunning THEN [demo EXCEPT !.caller = "start", !.invoked = {}]
               ELSE [demo EXCEPT !.isRunning = TRUE,
                                 !.intervalId = TRUE,
                                 !.marketIntervals = demo.marketIntervals + 1,
                                 !.signalIntervalId = TRUE,
                                 !.signalIntervals = demo.signalIntervals + 1,
                                 !.statusIntervals = demo.statusIntervals + 1,
                                 !.statusTimeouts = demo.statusTimeouts + 1,
                                 !.starts = demo.starts + 1,
                                 !.caller = "start",
                                 !.invoked = {}]
    /\ UNCHANGED <<engine, result, call, ticks, script, other, fed, results, otherResults,
                   detector, candidates, fn, finnhub, forex>>

\* the owner calls stop()
DemoStop ==
    /\ demo' = [demo EXCEPT !.isRunning = FALSE,
                            !.marketIntervals = IF demo.intervalId
                                                THEN demo.marketIntervals - 1
                                                ELSE demo.marketIntervals,
                            !.intervalId = FALSE,
                            !.signalIntervals = IF demo.signalIntervalId
                                                THEN demo.signalIntervals - 1
                                                ELSE demo.signalIntervals,
                            !.signalIntervalId = FALSE,
                            !.caller = "stop",
                            !.invoked = {}]
    /\ UNCHANGED <<engine, result, call, ticks, script, other, fed, results, otherResults,
                   detector, candidates, fn, finnhub, forex>>

\* the market update interval fires: generateMarketUpdate()
DemoMarketUpdate ==
    /\ demo.marketIntervals > 0
    /\ demo.callbacks
    /\ demo' = [demo EXCEPT !.invoked = demo.invoked \cup {"market"}]
    /\ UNCHANGED <<engine, result, call, ticks, script, other, fed, results, otherResults,
                   detector, candidates, fn, finnhub, forex>>

\* the trading signal interval fires: generateTradingSignal()
DemoTradingSignal ==
    /\ demo.signalIntervals > 0
    /\ demo.callbacks
    /\ demo' = [demo EXCEPT !.invoked = demo.invoked \cup {"signal"}]
    /\ UNCHANGED <<engine, result, call, ticks, script, other, fed, results, otherResults,
                   detector, candidates, fn, finnhub, forex>>

\* a status interval or the timeout of start() fires: sendSystemStatus()
DemoSystemStatus ==
    /\ \/ /\ demo.statusIntervals > 0
          /\ demo.callbacks
          /\ demo' = [demo EXCEPT !.invoked = demo.invoked \cup {"status"}]
       \/ /\ demo.statusTimeouts > 0
          /\ demo' = [demo EXCEPT !.statusTimeouts = demo.statusTimeouts - 1,
                                  !.invoked = IF demo.callbacks
                                              THEN demo.invoked \cup {"status"}
                                              ELSE demo.invoked]
    /\ UNCHANGED <<engine, result, call, ticks, script, other, fed, results, otherResults,
                   detector, candidates, fn, finnhub, forex>>

NextDemo == DemoStart \/ DemoStop \/ DemoMarketUpdate \/ DemoTradingSignal \/ DemoSystemStatus

SpecDemo == InitDemo /\ [][NextDemo]_vars

(***************************************************************************)
(* SpecForex: a ForexService, its connect() calls in progress and the      *)
(* periodic update timers it set                                           *)
(*                                                                         *)
(* connect() runs in two steps, up to its await of fetchLatestRates() and  *)
(* from there on; awaiting counts the connect() calls suspended at the     *)
(* await.  updateInterval tells whether the field holds a handle and       *)
(* intervals counts the active setInterval timers.  requestCount is the    *)
(* field of that name (lastRequestTime is set whenever it is incremented), *)
(* hasRates tells whether currentRates is not empty.  The rates themselves *)
(* and the clock are not modelled: a fetch made after an earlier request   *)
(* may or may not fall within the hour of the rate limit.                  *)
(***************************************************************************)
\* most connect() calls that pass the isRunning test in SpecForex
MaxConnects == 3

\* most requests counted in requestCount in SpecForex
MaxRequests == 3

InitForex ==
    /\ engine = NewEngine
    /\ result = NoCall
    /\ call = NoCall
    /\ ticks = 0
    /\ script = <<>>
    /\ other = NewEngine
    /\ fed = <<>>
    /\ results = <<>>
    /\ otherResults = <<>>
    /\ detector = NewDetector
    /\ candidates = NoCall
    /\ fn = NoCall
    /\ finnhub = NoCall
    /\ demo = NoCall
    /\ forex = [isRunning |-> FALSE,
                updateInterval |-> FALSE,
                intervals |-> 0,
                awaiting |-> 0,
                requestCount |-> 0,
                hasRates |-> FALSE,
                connects |-> 0,
                status |-> "none"]

\* fetchLatestRates() on a service with fields svc: the fields after it and
\* whether it threw.  skipped: the last request is less than an hour old;
\* unreachable: fetch() itself failed; rejected: the answer is not a success;
\* rates: the request succeeded.  A failure throws only while no rates are
\* cached.
fetchLatestRates(svc, outcome) ==
    CASE outcome = "skipped" -> [svc |-> svc, threw |-> FALSE]
      [] outcome = "unreachable" -> [svc |-> svc, threw |-> ~svc.hasRates]
      [] outcome = "rejected" ->
             [svc |-> [svc EXCEPT !.requestCount = svc.requestCount + 1],
              threw |-> ~svc.hasRates]
      [] outcome = "rates" ->
             [svc |-> [svc EXCEPT !.requestCount = svc.requestCount + 1,
                                  !.hasRates = TRUE],
              threw |-> FALSE]

\* the outcomes fetchLatestRates() can have on a service with fields svc
FetchOutcomes(svc) ==
    {"unreachable"}
        \cup (IF svc.requestCount > 0 THEN {"skipped"} ELSE {})
        \cup (IF svc.requestCount < MaxRequests THEN {"rejected", "rates"} ELSE {})

\* connect() up to its await
ForexConnect ==
    /\ forex.connects < MaxConnects
    /\ ~forex.isRunning
    /\ forex' = [forex EXCEPT !.isRunning = TRUE,
                              !.awaiting = forex.awaiting + 1,
                              !.connects = forex.connects + 1]
    /\ UNCHANGED <<engine, result, call, ticks, script, other, fed, results, otherResults,
                   detector, candidates, fn, finnhub, demo>>

\* connect() from its await on: the initial fetch has settled
ForexConnected ==
    /\ forex.awaiting > 0
    /\ \E outcome \in FetchOutcomes(forex) :
           \E f \in {fetchLatestRates(forex, outcome)} :
               forex' = IF f.threw
                        THEN [f.svc EXCEPT !.isRunning = FALSE,
                                           !.awaiting = forex.awaiting - 1]
                        ELSE [f.svc EXCEPT !.updateInterval = TRUE,
                                           !.intervals = forex.intervals + 1,
                                           !.status = "live",
                                           !.awaiting = forex.awaiting - 1]
    /\ UNCHANGED <<engine, result, call, ticks, script, other, fed, results, otherResults,
                   detector, candidates, fn, finnhub, demo>>

\* disconnect()
ForexDisconnect ==
    /\ forex' = [forex EXCEPT !.isRunning = FALSE,
                              !.intervals = IF forex.updateInterval
                                            THEN forex.intervals - 1
                                            ELSE forex.intervals,
                              !.updateInterval = FALSE]
    /\ UNCHANGED <<engine, result, call, ticks, script, other, fed, results, otherResults,
                   detector, candidates, fn, finnhub, demo>>

\* a periodic update timer fires
ForexUpdate ==
    /\ forex.intervals > 0
    /\ \E outcome \in FetchOutcomes(forex) : forex' = fetchLatestRates(forex, outcome).svc
    /\ UNCHANGED <<engine, result, call, ticks, script, other, fed, results, otherResults,
                   detector, candidates, fn, finnhub, demo>>

NextForex == ForexConnect \/ ForexConnected \/ ForexDisconnect \/ ForexUpdate

SpecForex == InitForex /\ [][NextForex]_vars

(***************************************************************************)
(* Properties                                                              *)
(***************************************************************************)

\* C1 (Spec): a returned BUY or SELL has confidence >= 0.6 and both stopLoss
\* and takeProfit set; a returned HOLD has stopLoss = null and takeProfit = null.
ActionableSignalsBracketed ==
    IsSignal(result) =>
        /\ result.signal \in {"BUY", "SELL"} =>
               /\ Ge(result.confidence, Frac(6, 10))
               /\ result.stopLoss # Null
               /\ result.takeProfit # Null
        /\ result.signal = "HOLD" =>
               /\ result.stopLoss = Null
               /\ result.takeProfit = Null

\* a SELL was returned, with its bracket
ReturnsBracketedSell ==
    /\ IsSignal(result)
    /\ result.signal = "SELL"
    /\ Ge(result.confidence, Frac(6, 10))
    /\ result.stopLoss = Mul(call.price, Frac(1002, 1000))
    /\ result.takeProfit = Mul(call.price, Frac(996, 1000))

\* C2 (Spec): the confidence of every returned signal lies in [0, 0.95].
ConfidenceClamped ==
    IsSignal(result) =>
        /\ Ge(result.confidence, Num(0))
        /\ Le(result.confidence, Frac(95, 100))

\* a BUY was returned whose confidence sum exceeded 0.95 and was clamped to it
ReturnsClampedBuy ==
    /\ IsSignal(result)
    /\ result.signal = "BUY"
    /\ Gt(Add(Add(Frac(6, 10), Mul(call.confirmations.score, Frac(35, 100))),
              Mul(call.primary.strength, Frac(2, 10))), Frac(95, 100))
    /\ result.confidence = Frac(95, 100)

\* C3 (SpecHistory): the detector's price, rsi, macd and stochastic histories
\* have one length, at most 100, and the engine's snapshot history has length
\* at most 50.
HistoriesAlignedAndBounded ==
    LET det == engine.divergenceDetector
    IN  /\ Len(det.indicatorHistory.rsi) = Len(det.priceHistory)
        /\ Len(det.indicatorHistory.macd) = Len(det.priceHistory)
        /\ Len(det.indicatorHistory.stochastic) = Len(det.priceHistory)
        /\ Len(det.priceHistory) <= 100
        /\ Len(engine.indicatorHistory) <= 50

\* more than 100 ticks were fed and all histories sit at their caps
HistoriesFull ==
    /\ ticks > 100
    /\ Len(engine.divergenceDetector.priceHistory) = 100
    /\ Len(engine.divergenceDetector.indicatorHistory.rsi) = 100
    /\ Len(engine.indicatorHistory) = 50

\* C4 (SpecDetector): detectDivergences() called after fewer than 5
\* addDataPoint calls returns the empty list.
NoCandidatesBeforeFiveBars ==
    (candidates # NoCall /\ candidates.added < 5) => candidates.found = <<>>

\* detectDivergences() was called on four bars that hold a lower low
DetectedOnFourBars ==
    /\ candidates # NoCall
    /\ candidates.added = 4
    /\ detector.priceHistory = <<Num(5), Num(3), Num(5), Num(1)>>
    /\ candidates.found = <<>>

\* C5 (SpecStrength): calculateDivergenceStrength returns a value in [0, 1]
\* for every pair of price extrema and every pair of indicator extrema.
StrengthWithinUnitInterval ==
    fn # NoCall => Ge(fn.strength, Num(0)) /\ Le(fn.strength, Num(1))

NullOnlyWhenSuppressed ==
    call # NoCall =>
        /\ result = Null =>
               /\ Len(call.strong) > 0
               /\ call.confirmations.count >= 2
               /\ Lt(signalConfidence(call.confirmations.score, call.primary.strength),
                     Frac(6, 10))
        /\ (Len(call.strong) = 0 \/ call.confirmations.count < 2) =>
               /\ IsSignal(result)
               /\ result.signal = "HOLD"

\* a strong bullish divergence with fewer than 2 confirmations returned a HOLD
HoldOnWeakConfirmation ==
    /\ call # NoCall
    /\ Len(call.strong) > 0
    /\ call.primary.type = "bullish"
    /\ call.confirmations.count < 2
    /\ IsSignal(result)
    /\ result.signal = "HOLD"

\* C8 (SpecShared): the outputs for the ticks of instrument A, fed to one
\* engine interleaved with ticks of instrument B, are the outputs of the same
\* ticks of A fed alone.
InstrumentsIndependent == results = otherResults

\* bar i (1-based, not the first or the last) is a strict local minimum of data
IsLocalMin(data, i) ==
    /\ i > 1
    /\ i < Len(data)
    /\ Lt(data[i], data[i - 1])
    /\ Lt(data[i], data[i + 1])

\* the added points hold two bars, 3 or more apart, that are local minima of
\* the price and of the RSI, the second lower in price and higher in RSI
HasBullishRsiScenario(det) ==
    \E i, j \in 1..Len(det.priceHistory) :
        /\ j - i >= 3
        /\ IsLocalMin(det.priceHistory, i)
        /\ IsLocalMin(det.priceHistory, j)
        /\ Lt(det.priceHistory[j], det.priceHistory[i])
        /\ IsLocalMin(det.indicatorHistory.rsi, i)
        /\ IsLocalMin(det.indicatorHistory.rsi, j)
        /\ Gt(det.indicatorHistory.rsi[j], det.indicatorHistory.rsi[i])

\* C9 (SpecDetector): when the added points hold a lower low of the price and
\* a higher low of the RSI, 3 or more bars apart, detectDivergences() returns
\* a bullish RSI candidate with strength > 0.3.
BullishScenarioDetected ==
    (candidates # NoCall /\ HasBullishRsiScenario(detector)) =>
        \E i \in 1..Len(candidates.found) :
            /\ candidates.found[i].type = "bullish"
            /\ candidates.found[i].indicator = "RSI"
            /\ Gt(candidates.found[i].strength, Frac(3, 10))

ZeroMacd == [macd |-> Num(0), signal |-> Num(0), histogram |-> Num(0)]

\* C10 as stated (SpecIndicators): on every series of 0..14 bars RSI is 50,
\* Stochastic is 50/50 and ADX is 25, and on every series of 0..26 bars MACD is
\* the zero triple.
DefaultsBelowPeriodPlusOne ==
    fn # NoCall =>
        /\ Len(fn.closes) <= 14 =>
               /\ fn.rsi = Num(50)
               /\ fn.stochastic = [k |-> Num(50), d |-> Num(50)]
               /\ fn.adx = Num(25)
        /\ Len(fn.closes) <= 26 => fn.macd = ZeroMacd

\* C10 as amended (SpecIndicators): RSI is 50 and ADX is 25 on every series of
\* 0..14 bars, Stochastic is 50/50 on every series of 0..13 bars and MACD is the
\* zero triple on every series of 0..25 bars.
DefaultsOnShortSeries ==
    fn # NoCall =>
        /\ Len(fn.closes) <= 14 => fn.rsi = Num(50) /\ fn.adx = Num(25)
        /\ Len(fn.closes) <= 13 => fn.stochastic = [k |-> Num(50), d |-> Num(50)]
        /\ Len(fn.closes) <= 25 => fn.macd = ZeroMacd

\* the indicators were computed on 14 bars that are not flat: RSI and ADX are
\* the defaults, MACD is zero, Stochastic is computed
DefaultsOnFourteenBars ==
    /\ fn # NoCall
    /\ Len(fn.closes) = 14
    /\ fn.closes[14] # fn.closes[13]
    /\ fn.rsi = Num(50)
    /\ fn.adx = Num(25)
    /\ fn.macd = ZeroMacd
    /\ fn.stochastic # [k |-> Num(50), d |-> Num(50)]

\* no price of the series is below the one before it
NonDecreasing(prices) == \A i \in 1..(Len(prices) - 1) : Le(prices[i], prices[i + 1])

\* no price of the series is above the one before it, and one is below it
Decreasing(prices) ==
    /\ \A i \in 1..(Len(prices) - 1) : Ge(prices[i], prices[i + 1])
    /\ \E i \in 1..(Len(prices) - 1) : Gt(prices[i], prices[i + 1])

\* C11 (SpecRsi): calculateRSI returns a value in [0, 100]; on a series of more
\* than 14 prices that never fall it returns 100, and on one whose prices never
\* rise and fall at least once it returns 0.
RsiWithinRangeAndSaturates ==
    fn # NoCall =>
        /\ Ge(fn.rsi, Num(0)) /\ Le(fn.rsi, Num(100))
        /\ (Len(fn.prices) > 14 /\ NonDecreasing(fn.prices)) => fn.rsi = Num(100)
        /\ (Len(fn.prices) > 14 /\ Decreasing(fn.prices)) => fn.rsi = Num(0)

\* calculateRSI returned 0 on 17 falling prices, two of them past the first loop
RsiZeroOnFallingSeries ==
    /\ fn # NoCall
    /\ Len(fn.prices) = 17
    /\ \A i \in 1..16 : Gt(fn.prices[i], fn.prices[i + 1])
    /\ fn.rsi = Num(0)

\* C12 (SpecEma): on a non-empty series whose samples all equal c, calculateEMA
\* returns exactly c, whatever the period and the length.
EmaOfConstantIsConstant ==
    (fn # NoCall /\ Len(fn.prices) >= 1) =>
        \A c \in EmaLevels :
            (\A i \in 1..Len(fn.prices) : fn.prices[i] = c) => fn.ema = c

\* calculateEMA ran its loop four times on five samples equal to 6/5, period 26
EmaOfFiveEqualSamples ==
    /\ fn # NoCall
    /\ Len(fn.prices) = 5
    /\ \A i \in 1..5 : fn.prices[i] = Frac(6, 5)
    /\ fn.period = 26
    /\ fn.ema = Frac(6, 5)

\* the sum of the weights of the first n rules of a table
RECURSIVE WeightSum(_, _)
WeightSum(rules, n) ==
    IF n = 0 THEN Num(0) ELSE Add(WeightSum(rules, n - 1), rules[n].weight)

\* the rules of a table whose predicate is true, in table order
TrueRules(rules, indicators, history) ==
    LET holds(rule) == ruleCheck(rule.name, indicators, history)
    IN  SelectSeq(rules, holds)

\* C13 (SpecConfirm): the five weights of each table sum to 1; checkConfirmations
\* returns count = the number of rules whose predicate is true, score = the sum
\* of their weights and reasons = their names in table order, so count is within
\* 0..5, score within [0, 1] and reasons has length count.
ConfirmationsCountTrueRules ==
    /\ Len(bullishConfirmationRules) = 5 /\ Len(bearishConfirmationRules) = 5
    /\ WeightSum(bullishConfirmationRules, 5) = Num(1)
    /\ WeightSum(bearishConfirmationRules, 5) = Num(1)
    /\ fn # NoCall =>
           \E true \in {TrueRules(fn.rules, fn.indicators, fn.history)} :
               /\ fn.confirmations.count = Len(true)
               /\ fn.confirmations.score = WeightSum(true, Len(true))
               /\ fn.confirmations.reasons = [i \in 1..Len(true) |-> true[i].name]
               /\ fn.confirmations.count \in 0..5
               /\ Ge(fn.confirmations.score, Num(0)) /\ Le(fn.confirmations.score, Num(1))
               /\ Len(fn.confirmations.reasons) = fn.confirmations.count

\* checkConfirmations found the first, second, fourth and fifth bullish rule true
FourBullishRulesTrue ==
    /\ fn # NoCall
    /\ fn.rules = bullishConfirmationRules
    /\ fn.confirmations.count = 4
    /\ fn.confirmations.score = Frac(80, 100)
    /\ fn.confirmations.reasons = <<"MACD Histogram Rising", "EMA Fast Above Slow",
                                    "ADX Strong Trend", "Stochastic Bullish">>

\* C14 (Spec): a BUY for a tick with price p has entryPrice = p, stopLoss =
\* p * 0.998, takeProfit = p * 1.004, horizon 5 and expected move +0.3; a SELL
\* has entryPrice = p, stopLoss = p * 1.002, takeProfit = p * 0.996, horizon 5
\* and expected move -0.3; for p > 0 the BUY has stopLoss < entryPrice <
\* takeProfit and the SELL takeProfit < entryPrice < stopLoss.
BracketIsFixedFractionOfPrice ==
    IsSignal(result) =>
        /\ result.signal = "BUY" =>
               /\ result.entryPrice = call.price
               /\ result.stopLoss = Mul(call.price, Frac(998, 1000))
               /\ result.takeProfit = Mul(call.price, Frac(1004, 1000))
               /\ result.predictionHorizonMins = 5
               /\ result.expectedMovePct = Frac(3, 10)
               /\ Gt(call.price, Num(0)) =>
                      /\ Lt(result.stopLoss, result.entryPrice)
                      /\ Lt(result.entryPrice, result.takeProfit)
        /\ result.signal = "SELL" =>
               /\ result.entryPrice = call.price
               /\ result.stopLoss = Mul(call.price, Frac(1002, 1000))
               /\ result.takeProfit = Mul(call.price, Frac(996, 1000))
               /\ result.predictionHorizonMins = 5
               /\ result.expectedMovePct = Frac(-3, 10)
               /\ Gt(call.price, Num(0)) =>
                      /\ Lt(result.takeProfit, result.entryPrice)
                      /\ Lt(result.entryPrice, result.stopLoss)

\* a BUY was returned for a tick with price 4: stop 3.992, target 4.016
BuyAtFourBracketed ==
    /\ IsSignal(result)
    /\ result.signal = "BUY"
    /\ call.price = Num(4)
    /\ result.entryPrice = Num(4)
    /\ result.stopLoss = Frac(3992, 1000)
    /\ result.takeProfit = Frac(4016, 1000)

\* C15 (SpecSession): after the session boundary of an instrument its snapshot
\* history and the four divergence histories are empty, and each of the next
\* four ticks finds no divergence and yields HOLD, as on a new engine.
HistoriesClearedAtSessionBoundary ==
    script # <<>> =>
        /\ ticks = 0 => engine = NewEngine
        /\ ticks \in 1..4 =>
               /\ Len(engine.indicatorHistory) = ticks
               /\ Len(engine.divergenceDetector.priceHistory) = ticks
               /\ call.divergences = <<>>
               /\ result.signal = "HOLD"

\* C16 (SpecSignals): on a tick for which detectDivergences returns no candidate
\* with strength > 0.5, none at all included, processMarketData returns a HOLD
\* with the reason "Mixed signals - insufficient confirmation for trade entry",
\* confidence 0.45, stopLoss and takeProfit null and entryPrice the tick's price.
DefaultHoldWithoutStrongCandidate ==
    (/\ call # NoCall
     /\ \A i \in 1..Len(call.divergences) :
            ~Gt(call.divergences[i].strength, Frac(5, 10))) =>
        /\ IsSignal(result)
        /\ result.signal = "HOLD"
        /\ result.reason = <<"Mixed signals - insufficient confirmation for trade entry">>
        /\ result.confidence = Frac(45, 100)
        /\ result.stopLoss = Null
        /\ result.takeProfit = Null
        /\ result.entryPrice = call.price

\* detectDivergences returned one candidate, of strength 57/130, and the tick, whose
\* bars make three bullish rules true, got the default HOLD
DefaultHoldOnWeakCandidate ==
    /\ call # NoCall
    /\ Len(call.divergences) = 1
    /\ call.divergences[1].strength = Frac(57, 130)
    /\ checkConfirmations(call.indicators, bullishConfirmationRules,
                          engine.indicatorHistory).count = 3
    /\ result.signal = "HOLD"
    /\ result.reason = defaultHoldReason

\* the number of rules of a table whose predicate is true
TrueCount(rules, indicators, history) ==
    Cardinality({i \in 1..Len(rules) : ruleCheck(rules[i].name, indicators, history)})

\* the rule table that goes with a candidate's direction
TableOf(divergence) ==
    IF divergence.type = "bullish" THEN bullishConfirmationRules ELSE bearishConfirmationRules

\* C17 (SpecSignals): on a tick where a strong divergence is selected and fewer
\* than 2 rules of the matching table are true, processMarketData returns a HOLD
\* with confidence 0.45 and no stopLoss or takeProfit, whose reason is "Bullish
\* divergence detected but insufficient confirmation (<count>/2)" for a bullish
\* primary candidate, "Bearish ..." for a bearish one, <count> being the count.
InsufficientConfirmationHold ==
    (call # NoCall /\ Len(call.strong) > 0) =>
        \E count \in {TrueCount(TableOf(call.primary), call.indicators,
                                 engine.indicatorHistory)} :
            count < 2 =>
                /\ IsSignal(result)
                /\ result.signal = "HOLD"
                /\ result.confidence = Frac(45, 100)
                /\ result.stopLoss = Null
                /\ result.takeProfit = Null
                /\ call.primary.type = "bullish" =>
                       result.reason =
                           <<"Bullish divergence detected but insufficient confirmation (",
                             ToString(count), "/2)">>
                /\ call.primary.type = "bearish" =>
                       result.reason =
                           <<"Bearish divergence detected but insufficient confirmation (",
                             ToString(count), "/2)">>

\* a bearish divergence was selected, one bearish rule was true, and the HOLD
\* says (1/2)
BearishHoldOneOfTwo ==
    /\ call # NoCall
    /\ Len(call.strong) > 0
    /\ call.primary.type = "bearish"
    /\ TrueCount(bearishConfirmationRules, call.indicators, engine.indicatorHistory) = 1
    /\ result.signal = "HOLD"
    /\ result.reason =
           <<"Bearish divergence detected but insufficient confirmation (", "1", "/2)">>

\* the sum of the weights of the rules of a table whose predicate is true
RECURSIVE TrueWeight(_, _, _, _)
TrueWeight(rules, indicators, history, n) ==
    IF n = 0 THEN Num(0)
    ELSE IF ruleCheck(rules[n].name, indicators, history)
    THEN Add(TrueWeight(rules, indicators, history, n - 1), rules[n].weight)
    ELSE TrueWeight(rules, indicators, history, n - 1)

\* 0.6 + score * 0.35 + strength * 0.2
RawConfidence(score, strength) ==
    Add(Add(Frac(6, 10), Mul(score, Frac(35, 100))), Mul(strength, Frac(2, 10)))

\* scores and strengths between which the confidence is compared
ConfidenceGrid == {Num(0), Frac(1, 4), Frac(51, 100), Frac(3, 4), Num(1)}

\* C18 (SpecSignals): the confidence of a BUY or SELL is min(0.95, 0.6 + score *
\* 0.35 + strength * 0.2), score being the sum of the weights of the true rules
\* of the matching table on this tick and strength that of the selected primary
\* divergence; it does not decrease when score or strength grows and never
\* exceeds 0.95.
ConfidenceFromScoreAndStrength ==
    (IsSignal(result) /\ result.signal \in {"BUY", "SELL"}) =>
        \E score \in {TrueWeight(TableOf(call.primary), call.indicators,
                                  engine.indicatorHistory, 5)} :
            /\ result.confidence =
                   MathMin(Frac(95, 100), RawConfidence(score, call.primary.strength))
            /\ \A s \in ConfidenceGrid, t \in ConfidenceGrid :
                   /\ Le(s, score) /\ Le(t, call.primary.strength) =>
                          Le(signalConfidence(s, t), result.confidence)
                   /\ Ge(s, score) /\ Ge(t, call.primary.strength) =>
                          Ge(signalConfidence(s, t), result.confidence)
                   /\ Le(signalConfidence(s, t), Frac(95, 100))

\* a SELL on score 0.55 and strength 0.6: confidence 0.9125, below the cap
SellConfidenceBelowCap ==
    /\ IsSignal(result)
    /\ result.signal = "SELL"
    /\ call.primary.strength = Frac(6, 10)
    /\ TrueWeight(bearishConfirmationRules, call.indicators, engine.indicatorHistory, 5)
           = Frac(55, 100)
    /\ result.confidence = Frac(9125, 10000)

\* the place of a candidate in detection order: its indicator first (RSI, MACD,
\* Stochastic), bullish before bearish within one indicator
DetectionRank(d) ==
    2 * (CASE d.indicator = "RSI" -> 0 [] d.indicator = "MACD" -> 1
           [] d.indicator = "Stochastic" -> 2)
    + (IF d.type = "bullish" THEN 0 ELSE 1)

\* C19 (SpecSignals): detectDivergences lists its candidates in detection order;
\* when some have strength > 0.5 the engine acts on one of them of maximal
\* strength, and among those of maximal strength on the first in detection
\* order: the result carries the direction of that candidate and, when it is a
\* BUY or SELL, starts its reason with that candidate's description.
ActsOnFirstStrongest ==
    call # NoCall =>
        /\ \A i, j \in 1..Len(call.divergences) :
               i < j => DetectionRank(call.divergences[i]) < DetectionRank(call.divergences[j])
        /\ (\E i \in 1..Len(call.divergences) :
                Gt(call.divergences[i].strength, Frac(5, 10))) =>
               \E i \in 1..Len(call.divergences) :
                   /\ call.primary = call.divergences[i]
                   /\ Gt(call.primary.strength, Frac(5, 10))
                   /\ \A j \in 1..Len(call.divergences) :
                          /\ Le(call.divergences[j].strength, call.primary.strength)
                          /\ call.divergences[j].strength = call.primary.strength => i <= j
                   /\ IsSignal(result)
                   /\ result.signal \in {"BUY", "SELL"} =>
                          /\ result.signal =
                                 (IF call.primary.type = "bullish" THEN "BUY" ELSE "SELL")
                          /\ SubSeq(result.reason, 1, Len(call.primary.description))
                                 = call.primary.description
                   /\ result.signal = "HOLD" =>
                          result.reason[1] =
                              (IF call.primary.type = "bullish"
                               THEN "Bullish divergence detected but insufficient confirmation ("
                               ELSE "Bearish divergence detected but insufficient confirmation (")

\* the RSI and the Stochastic candidate both have strength 1 and the BUY is
\* given for the RSI one
TieGoesToRsi ==
    /\ call # NoCall
    /\ Len(call.strong) = 2
    /\ call.strong[1].indicator = "RSI" /\ call.strong[2].indicator = "Stochastic"
    /\ call.strong[1].strength = Num(1) /\ call.strong[2].strength = Num(1)
    /\ call.primary = call.strong[1]
    /\ result.signal = "BUY"
    /\ SubSeq(result.reason, 1, Len(call.strong[1].description)) = call.strong[1].description

\* the pieces of a reason are the names of exactly the true rules of a table,
\* apart from pieces that are no rule name of it
NamesTrueRulesOf(reason, rules, indicators, history) ==
    \A i \in 1..Len(rules) :
        ruleCheck(rules[i].name, indicators, history)
            <=> (\E n \in 1..Len(reason) : reason[n] = rules[i].name)

\* C20 (SpecSignals): with a bullish primary divergence only the bullish table
\* counts and the result is BUY or HOLD, BUY exactly when at least 2 bullish
\* rules are true; with a bearish one only the bearish table counts and the
\* result is SELL or HOLD, SELL exactly when at least 2 bearish rules are true.
DirectionFixesTableAndOutcome ==
    (call # NoCall /\ Len(call.strong) > 0) =>
        /\ IsSignal(result)
        /\ call.primary.type \in {"bullish", "bearish"}
        /\ call.primary.type = "bullish" =>
               /\ result.signal \in {"BUY", "HOLD"}
               /\ result.signal = "BUY" <=>
                      TrueCount(bullishConfirmationRules, call.indicators,
                                engine.indicatorHistory) >= 2
               /\ result.signal = "BUY" =>
                      NamesTrueRulesOf(result.reason, bullishConfirmationRules,
                                       call.indicators, engine.indicatorHistory)
        /\ call.primary.type = "bearish" =>
               /\ result.signal \in {"SELL", "HOLD"}
               /\ result.signal = "SELL" <=>
                      TrueCount(bearishConfirmationRules, call.indicators,
                                engine.indicatorHistory) >= 2
               /\ result.signal = "SELL" =>
                      NamesTrueRulesOf(result.reason, bearishConfirmationRules,
                                       call.indicators, engine.indicatorHistory)

\* a bearish primary divergence, two bearish rules true and only one bullish
\* rule: the result is a SELL
SellDecidedByBearishTable ==
    /\ call # NoCall
    /\ Len(call.strong) > 0
    /\ call.primary.type = "bearish"
    /\ TrueCount(bearishConfirmationRules, call.indicators, engine.indicatorHistory) = 2
    /\ TrueCount(bullishConfirmationRules, call.indicators, engine.indicatorHistory) = 1
    /\ result.signal = "SELL"

\* the name is among the confirmation reasons of the call
Confirmed(name) == \E n \in 1..Len(call.confirmations.reasons) : call.confirmations.reasons[n] = name

\* C21 (Spec): on a tick whose rule table is evaluated, 'RSI Oversold Recovery'
\* is among the bullish confirmations exactly when the RSI of the previous
\* tick's snapshot is < 30 and that of the current tick's is > 30, 'RSI
\* Overbought Decline' among the bearish ones exactly when the previous RSI is
\* > 70 and the current one < 70, and each then adds 0.20 to the score.
RsiCrossRuleComparesPreviousTick ==
    (call # NoCall /\ Len(call.strong) > 0 /\ Len(engine.indicatorHistory) >= 2) =>
        \E previous \in {engine.indicatorHistory[Len(engine.indicatorHistory) - 1]} :
            /\ call.primary.type = "bullish" =>
                   (Confirmed("RSI Oversold Recovery")
                        <=> (Lt(previous.rsi, Num(30)) /\ Gt(call.indicators.rsi, Num(30))))
            /\ call.primary.type = "bearish" =>
                   (Confirmed("RSI Overbought Decline")
                        <=> (Gt(previous.rsi, Num(70)) /\ Lt(call.indicators.rsi, Num(70))))

\* (close - min(low[-14:])) / (max(high[-14:]) - min(low[-14:])) * 100
PercentK(highs, lows, closes) ==
    Mul(Div(Sub(closes[Len(closes)], SpreadMin(SliceLast(lows, 14))),
            Sub(SpreadMax(SliceLast(highs, 14)), SpreadMin(SliceLast(lows, 14)))),
        Num(100))

\* C22 (SpecIndicators): on at least 14 closes with max(high[-14:]) different
\* from min(low[-14:]), calculateStochastic returns k = (close - lowest low) /
\* (highest high - lowest low) * 100 and d = k * 0.95, also when the close is
\* the lowest low (k = 0, d = 0).
StochasticIsPercentK ==
    (/\ fn # NoCall
     /\ Len(fn.closes) >= 14
     /\ SpreadMax(SliceLast(fn.highs, 14)) # SpreadMin(SliceLast(fn.lows, 14))) =>
        /\ fn.stochastic.k = PercentK(fn.highs, fn.lows, fn.closes)
        /\ fn.stochastic.d = Mul(PercentK(fn.highs, fn.lows, fn.closes), Frac(95, 100))

\* the tick input of the i-th processMarketData call of SpecHistory
TickOf(i) == script[((i - 1) % Len(script)) + 1]

\* the snapshot computed by the i-th processMarketData call of SpecHistory
SnapshotOf(i) == indicatorsOf(TickOf(i).highs, TickOf(i).lows, TickOf(i).closes)

\* history holds, in arrival order, what value(i) is for the last
\* min(ticks, cap) of the calls 1..ticks
HoldsLast(history, cap, value(_)) ==
    /\ Len(history) = IF ticks < cap THEN ticks ELSE cap
    /\ \A j \in 1..Len(history) : history[j] = value(ticks - Len(history) + j)

PriceAt(i) == TickOf(i).price
RsiAt(i) == SnapshotOf(i).rsi
HistogramAt(i) == SnapshotOf(i).macd.histogram
PercentKAt(i) == SnapshotOf(i).stochastic.k

\* C23 (SpecHistory): after n processMarketData calls the detector's price
\* history and its three indicator histories hold exactly the values of the
\* last min(n, 100) calls in arrival order, and the engine's snapshot history
\* holds exactly the snapshots of the last min(n, 50) calls in arrival order.
EvictionIsFifo ==
    /\ HoldsLast(engine.divergenceDetector.priceHistory, 100, PriceAt)
    /\ HoldsLast(engine.divergenceDetector.indicatorHistory.rsi, 100, RsiAt)
    /\ HoldsLast(engine.divergenceDetector.indicatorHistory.macd, 100, HistogramAt)
    /\ HoldsLast(engine.divergenceDetector.indicatorHistory.stochastic, 100, PercentKAt)
    /\ HoldsLast(engine.indicatorHistory, 50, SnapshotOf)

\* 101 ticks of two alternating inputs were fed: the first price and the first
\* snapshot are gone and the histories start with the second tick's values
OldestEvicted ==
    /\ ticks = 101
    /\ Len(script) = 2
    /\ script[1].price # script[2].price
    /\ engine.divergenceDetector.priceHistory[1] = script[2].price
    /\ engine.indicatorHistory[1] = SnapshotOf(52)
    /\ SnapshotOf(52) # SnapshotOf(51)

\* the interior positions of v holding a strict local minimum / maximum
LocalMinima(v) == {i \in 2..(Len(v) - 1) : Lt(v[i], v[i - 1]) /\ Lt(v[i], v[i + 1])}

LocalMaxima(v) == {i \in 2..(Len(v) - 1) : Gt(v[i], v[i - 1]) /\ Gt(v[i], v[i + 1])}

Largest(S) == CHOOSE i \in S : \A j \in S : j <= i

\* the most recent extremum of v among positions S, and the one before it
Recent(v, S) == [index |-> Largest(S) - 1, value |-> v[Largest(S)]]

Before(v, S) == Recent(v, S \ {Largest(S)})

\* the condition of a bullish candidate on the last 5 prices p and the last 5
\* indicator values v
BullishCondition(p, v) ==
    /\ Cardinality(LocalMinima(p)) >= 2
    /\ Cardinality(LocalMinima(v)) >= 2
    /\ Lt(Recent(p, LocalMinima(p)).value, Before(p, LocalMinima(p)).value)
    /\ Gt(Recent(v, LocalMinima(v)).value, Before(v, LocalMinima(v)).value)
    /\ Gt(calculateDivergenceStrength(Before(p, LocalMinima(p)), Recent(p, LocalMinima(p)),
                                      Before(v, LocalMinima(v)), Recent(v, LocalMinima(v))),
          Frac(3, 10))

\* the mirrored condition of a bearish candidate
BearishCondition(p, v) ==
    /\ Cardinality(LocalMaxima(p)) >= 2
    /\ Cardinality(LocalMaxima(v)) >= 2
    /\ Gt(Recent(p, LocalMaxima(p)).value, Before(p, LocalMaxima(p)).value)
    /\ Lt(Recent(v, LocalMaxima(v)).value, Before(v, LocalMaxima(v)).value)
    /\ Gt(calculateDivergenceStrength(Before(p, LocalMaxima(p)), Recent(p, LocalMaxima(p)),
                                      Before(v, LocalMaxima(v)), Recent(v, LocalMaxima(v))),
          Frac(3, 10))

\* detectDivergences() returned a candidate of this type for this indicator
Emitted(type, indicatorName) ==
    \E i \in 1..Len(candidates.found) :
        /\ candidates.found[i].type = type
        /\ candidates.found[i].indicator = indicatorName

\* the detector's history of the named indicator
HistoryOf(indicatorName) ==
    CASE indicatorName = "RSI" -> detector.indicatorHistory.rsi
      [] indicatorName = "MACD" -> detector.indicatorHistory.macd
      [] indicatorName = "Stochastic" -> detector.indicatorHistory.stochastic

\* C24 (SpecDetector): for each indicator detectDivergences() emits a bullish
\* candidate exactly when the last 5 prices and the last 5 indicator values
\* each have two or more strict local minima, the most recent price minimum is
\* lower than the one before, the most recent indicator minimum is higher than
\* the one before and the strength is > 0.3; it emits a bearish candidate
\* exactly under the mirrored condition on strict local maxima.
CandidateExactlyOnDivergence ==
    candidates # NoCall =>
        \A indicatorName \in {"RSI", "MACD", "Stochastic"} :
            /\ Emitted("bullish", indicatorName)
                   <=> BullishCondition(SliceLast(detector.priceHistory, 5),
                                        SliceLast(HistoryOf(indicatorName), 5))
            /\ Emitted("bearish", indicatorName)
                   <=> BearishCondition(SliceLast(detector.priceHistory, 5),
                                        SliceLast(HistoryOf(indicatorName), 5))

\* a higher high of the price against a lower high of RSI and of the MACD
\* histogram: the MACD candidate is emitted, the RSI one is too weak (<= 0.3)
BearishMacdButWeakRsi ==
    /\ candidates # NoCall
    /\ Emitted("bearish", "MACD")
    /\ ~Emitted("bearish", "RSI")
    /\ Cardinality(LocalMaxima(SliceLast(detector.indicatorHistory.rsi, 5))) >= 2
    /\ Lt(detector.indicatorHistory.rsi[Len(detector.indicatorHistory.rsi) - 1],
          detector.indicatorHistory.rsi[Len(detector.indicatorHistory.rsi) - 3])

\* C25 (SpecSignals): processMarketData never returns null: every call returns
\* a BUY, SELL or HOLD signal, and whenever the confidence is computed (a strong
\* divergence was selected and its table gave count >= 2) the score is >= 0.25
\* and the confidence is > 0.7875, so it is never below the threshold 0.6.
NeverSuppressed ==
    call # NoCall =>
        /\ result # Null
        /\ result.signal \in {"BUY", "SELL", "HOLD"}
        /\ (Len(call.strong) > 0 /\ call.confirmations.count >= 2) =>
               /\ Ge(call.confirmations.score, Frac(25, 100))
               /\ Gt(signalConfidence(call.confirmations.score, call.primary.strength),
                     Frac(7875, 10000))
               /\ result.signal \in {"BUY", "SELL"}
               /\ Gt(result.confidence, Frac(7875, 10000))

\* a BUY whose computed confidence lies between 0.7875 and the cap of 0.95
BuyConfidenceBelowCap ==
    /\ IsSignal(result)
    /\ result.signal = "BUY"
    /\ Len(call.strong) > 0
    /\ call.confirmations.count >= 2
    /\ Lt(result.confidence, Frac(95, 100))

\* C26 (SpecDetector): the candidates returned by one detectDivergences() call
\* all have the same direction and there is at most one per indicator, so at
\* most three; a window of 5 prices with two local minima has them at the
\* second and fourth bar and a single local maximum at the third (and
\* symmetrically for two local maxima).
OneDirectionPerCall ==
    candidates # NoCall =>
        /\ Len(candidates.found) <= 3
        /\ \A i, j \in 1..Len(candidates.found) :
               /\ candidates.found[i].type = candidates.found[j].type
               /\ i # j => candidates.found[i].indicator # candidates.found[j].indicator
        /\ \E p \in {SliceLast(detector.priceHistory, 5)} :
               /\ Cardinality(LocalMinima(p)) >= 2 =>
                      LocalMinima(p) = {2, 4} /\ LocalMaxima(p) = {3}
               /\ Cardinality(LocalMaxima(p)) >= 2 =>
                      LocalMaxima(p) = {2, 4} /\ LocalMinima(p) = {3}

\* one call returned three bullish candidates, one for each indicator
ThreeBullishCandidates ==
    /\ candidates # NoCall
    /\ Len(candidates.found) = 3
    /\ \A i \in 1..3 : candidates.found[i].type = "bullish"

\* C27 (SpecSignals): the rule 'Stochastic Bearish' (k < d and k > 20) is false
\* on every snapshot calculateStochastic produced, since d is 0.95 * k or both
\* are 50; so the confirmations of a bearish divergence never name this rule
\* and their score never includes its weight 0.1.
StochasticBearishNeverTrue ==
    call # NoCall =>
        /\ ~ruleCheck("Stochastic Bearish", call.indicators, engine.indicatorHistory)
        /\ \/ call.indicators.stochastic.d = Mul(call.indicators.stochastic.k, Frac(95, 100))
           \/ call.indicators.stochastic = [k |-> Num(50), d |-> Num(50)]
        /\ (Len(call.strong) > 0 /\ call.primary.type = "bearish") =>
               /\ ~Confirmed("Stochastic Bearish")
               /\ call.confirmations.score
                      = TrueWeight(bearishConfirmationRules, call.indicators,
                                   engine.indicatorHistory, 4)

\* the bearish table was evaluated on a snapshot with k > 20 and d = 0.95 * k
BearishTableOnStochasticAboveTwenty ==
    /\ call # NoCall
    /\ Len(call.strong) > 0
    /\ call.primary.type = "bearish"
    /\ Gt(call.indicators.stochastic.k, Num(20))
    /\ call.indicators.stochastic.d # call.indicators.stochastic.k

\* C28 (SpecFinnhub): while the owner's last call is disconnect() the service
\* stays disconnected: isConnected is false, no reconnection timeout is
\* pending and the service has not called connect() itself (this.ws is null).
StaysDisconnected ==
    finnhub.caller = "disconnect" =>
        /\ ~finnhub.isConnected
        /\ finnhub.reconnectInterval # "pending"
        /\ finnhub.orphanTimeouts = 0
        /\ finnhub.ws = 0

\* C29 (SpecDemo): while the owner's last call is stop() none of the three
\* callbacks (signal, market update, system status) is invoked, and at most
\* one timer of each kind (market update, trading signal, system status) is
\* active at a time.
QuietAfterStop ==
    /\ demo.caller = "stop" => demo.invoked = {}
    /\ demo.marketIntervals <= 1
    /\ demo.signalIntervals <= 1
    /\ demo.statusIntervals <= 1

\* C30 (SpecForex): whenever isConnected() is false and no connect() call is
\* in progress there is no active periodic update timer, and at most one
\* periodic update timer is ever active.
NoTimerWhileDisconnected ==
    /\ (~forex.isRunning /\ forex.awaiting = 0) => forex.intervals = 0
    /\ forex.intervals <= 1

====
